---- MODULE Spec2Model ----
(***************************************************************************)
(* A model of localdb: Table (row store with constraints), Transaction     *)
(* (compensating-action undo log) and the callers that drive them.         *)
(* Indices are 1-based here; findPrimaryKeyIndex returns 0 where the code  *)
(* returns -1.                                                             *)
(***************************************************************************)
EXTENDS Integers, Sequences, FiniteSets, TLC

\* ------------------------------------------------------------------------
\* Bounds of the model
\* ------------------------------------------------------------------------
\* A caller inserts only while the table holds fewer rows than this.
MaxRows == 2
\* A transaction is given a mutating call only when its undo log holds at most
\* this many compensating actions afterwards.
MaxTxOps == 1

\* ------------------------------------------------------------------------
\* Values, rows, columns
\* ------------------------------------------------------------------------
IntValue(n) == [type |-> "INT", int_val |-> n]

\* The values callers put into rows.
Values == {IntValue(1), IntValue(2)}

\* Value(const std::string&) and Value(const std::vector<uint8_t>&): the
\* payload is the sequence of its bytes (0..255).
TextValue(bytes) == [type |-> "TEXT", bytes |-> bytes]
BlobValue(bytes) == [type |-> "BLOB", bytes |-> bytes]

\* Value::operator== (the comparison of float_val is not modelled: no float
\* reaches a comparison here).
ValueEq(a, b) ==
    IF a.type # b.type
    THEN FALSE
    ELSE CASE a.type = "INT" -> a.int_val = b.int_val
           [] a.type = "TEXT" -> a.bytes = b.bytes
           [] a.type = "BLOB" -> a.bytes = b.bytes
           [] a.type = "NULL_TYPE" -> TRUE
           [] OTHER -> FALSE

\* Row equality: std::vector<Value>::operator== (sizes, then element-wise).
RowEq(r1, r2) ==
    /\ Len(r1) = Len(r2)
    /\ \A i \in 1..Len(r1) : ValueEq(r1[i], r2[i])

Column(n, pk, nn, uq) ==
    [name |-> n, type |-> "INT", primary_key |-> pk, not_null |-> nn, unique |-> uq]

\* The tables registered in the Database, in std::map key order.
MapOrder == <<"N", "P", "U">>
TableNames == {MapOrder[i] : i \in 1..Len(MapOrder)}
\* A name no table is ever registered under.
MissingTable == "X"

\* The column lists the callers create their tables with, by table name.
FixtureColumns(t) ==
    CASE t = "P" -> <<Column("id", TRUE, TRUE, FALSE), Column("val", FALSE, FALSE, FALSE)>>
      [] t = "U" -> <<Column("code", FALSE, FALSE, TRUE)>>
      [] t = "N" -> <<Column("val", FALSE, FALSE, FALSE)>>

\* The rows callers pass: every length from 1 to 2, so that both matching and
\* mismatching arities occur for every table.
RowInputs == UNION {[1..n -> Values] : n \in 1..2}

\* Caller-supplied predicates (std::function<bool(const Row&)>).
Predicates ==
    { [kind |-> "all", v |-> IntValue(0)],
      [kind |-> "first", v |-> IntValue(1)],
      [kind |-> "last", v |-> IntValue(2)] }

\* Application of a predicate to a row.
PredHolds(p, r) ==
    CASE p.kind = "all" -> TRUE
      [] p.kind = "first" -> ValueEq(r[1], p.v)
      [] p.kind = "last" -> ValueEq(r[Len(r)], p.v)

\* ------------------------------------------------------------------------
\* State
\* ------------------------------------------------------------------------
VARIABLES
    tables_,                \* Database::tables_: the names tables are registered under
    rows_,                  \* Table::rows_ of each registered table
    active_,                \* Transaction::active_
    rollback_operations_,   \* Transaction::rollback_operations_ (per table name)
    life,                   \* lifecycle of the transaction object
    snap,                   \* history: rows_ when the transaction began
    clean,                  \* history: no call outside the transaction since it began
    allTrue,                \* history: every mutating call of the transaction returned true
    shape,                  \* history: only fresh-key inserts and key-preserving single-row updates
    writes,                 \* history: <<table, row>> pairs the transaction wrote
    last,                   \* what the last call returned
    mutex_,                 \* Table::mutex_ of each table: its exclusive owner and its shared owners
    pc,                     \* where each thread stands inside the call it is running
    arg,                    \* the table and row of the call a thread is running
    started,                \* history: how many insert calls threads have entered
    initial,                \* history: the row count before the threads started
    acked,                  \* history: per row, how many inserts of it returned true
    seen,                   \* history: the row count each thread's last select returned
    schema_,                \* Table::columns_ of each table (fixed at construction)
    file_,                  \* the bytes of the file saveToFile wrote, if it wrote one
    other_,                 \* a second Database object, the one a file is loaded into afresh
    db_mutex_,              \* Database::mutex_: TRUE while a call holds it
    held,                   \* history: what the Database held when loadFromFile was last called
    probe,                  \* the operands a caller of Value's operators holds, and the results
    used,                   \* history: per transaction, the tables in the order of their first
                            \* successful mutating call
    undone,                 \* history: the compensating actions the last rollback ran, in order
    born,                   \* per name, how many Table objects were registered under it so
                            \* far: <<name, born[name]>> identifies the object a Table*
                            \* points to
    wild,                   \* history: the accesses made through a Table* whose object was
                            \* destroyed
    phase                   \* where the caller of the Database is: "build", "saved" (its last
                            \* call was saveToFile), "changed" (it has called createTable or
                            \* dropTable since), and after
                            \* its load the file it loaded: "file", "fresh" (the file, into a
                            \* second Database), "missing", "cut", "garbage"

vars == <<tables_, rows_, active_, rollback_operations_, life, snap, clean, allTrue, shape, writes, last,
          mutex_, pc, arg, started, initial, acked, seen, schema_, file_, other_, db_mutex_, held, phase,
          probe, used, undone, born, wild>>

\* Table::columns_ of table t.
columns_(t) == schema_[t]

\* The variables only Database calls touch.
store == <<schema_, file_, other_, db_mutex_, held, phase>>

\* The variables only calls that keep a Table* touch.
handles == <<born, wild>>

\* The variables only the callers of Value's operators and the observers of
\* rollback touch.
aside == <<probe, used, undone, handles>>

\* The variables only calls running on concurrent threads touch.
threads == <<mutex_, pc, arg, started, initial, acked, seen>>

\* The threads of the concurrent tests: two writers and a reader, each with a
\* transaction object of its own.
Threads == {1, 2, 3}
Writers == {1, 2}
Readers == {3}

\* The transaction objects: one per thread; a single-threaded caller works
\* with one at a time.
Txs == Threads
CallerTxs == {1}

EmptyLog == [t \in TableNames |-> <<>>]

\* What a call leaves in `last`: its boolean result (TRUE for the calls that
\* return none) and the rows it returned (none unless it is a select).
Returned(ret, rows) == [ret |-> ret, rows |-> rows]

\* ------------------------------------------------------------------------
\* Table
\* ------------------------------------------------------------------------
RECURSIVE FirstIndex(_, _, _)
\* Smallest index i >= from with P[i], or 0.
FirstIndex(flags, from, n) ==
    IF from > n THEN 0
    ELSE IF flags[from] THEN from
    ELSE FirstIndex(flags, from + 1, n)

\* Table::findPrimaryKeyIndex (0 stands for the code's -1)
findPrimaryKeyIndex(cols) ==
    FirstIndex([i \in 1..Len(cols) |-> cols[i].primary_key], 1, Len(cols))

\* constraint_violated with the scan of the unique columns left out.
constraint_violated_pk_only(cols, rows, row) ==
    LET pk_index == IF \E i \in 1..Len(cols) : cols[i].primary_key
                    THEN CHOOSE i \in 1..Len(cols) : cols[i].primary_key
                    ELSE 0
    IN /\ pk_index > 0
       /\ \E k \in 1..Len(rows) : ValueEq(rows[k][pk_index], row[pk_index])

\* The constraint scan of Table::insert / Transaction::insert: TRUE when the
\* primary-key check or a unique check finds a colliding row.
constraint_violated(cols, rows, row) ==
    LET pk_index == findPrimaryKeyIndex(cols) IN
    \/ /\ pk_index > 0
       /\ \E k \in 1..Len(rows) : ValueEq(rows[k][pk_index], row[pk_index])
    \/ \E i \in 1..Len(cols) :
          /\ cols[i].unique
          /\ \E k \in 1..Len(rows) : ValueEq(rows[k][i], row[i])

\* Result of Table::insert on a row store: <<return value, new rows>>.
TableInsertResult(cols, rows, row) ==
    IF Len(row) # Len(cols) THEN <<FALSE, rows>>
    ELSE IF constraint_violated(cols, rows, row) THEN <<FALSE, rows>>
    ELSE <<TRUE, Append(rows, row)>>

\* UpdateRows that stops at the first matching row.
UpdateFirstRow(rows, row, p) ==
    [k \in 1..Len(rows) |->
        IF PredHolds(p, rows[k]) /\ \A i \in 1..(k - 1) : ~PredHolds(p, rows[i])
        THEN row ELSE rows[k]]

\* The loop of Table::update: every matching row is overwritten by row.
UpdateRows(rows, row, p) ==
    [k \in 1..Len(rows) |-> IF PredHolds(p, rows[k]) THEN row ELSE rows[k]]

\* The rows a predicate selects, in storage order (Table::select's loop).
SelectRows(rows, p) == SelectSeq(rows, LAMBDA r : PredHolds(p, r))

\* TableUpdateResult with the check of the row's size left out.
TableUpdateNoSizeCheck(cols, rows, row, p) ==
    <<SelectRows(rows, p) # <<>>, UpdateRows(rows, row, p)>>

\* Result of Table::update: <<return value, new rows>>.
TableUpdateResult(cols, rows, row, p) ==
    IF Len(row) # Len(cols) THEN <<FALSE, rows>>
    ELSE <<SelectRows(rows, p) # <<>>, UpdateRows(rows, row, p)>>

\* RemoveRows with the survivors in reverse order.
RemoveRowsReversed(rows, p) ==
    LET kept == SelectSeq(rows, LAMBDA r : ~PredHolds(p, r))
    IN [k \in 1..Len(kept) |-> kept[Len(kept) + 1 - k]]

\* erase(remove_if(..., predicate)): survivors in their previous order.
RemoveRows(rows, p) == SelectSeq(rows, LAMBDA r : ~PredHolds(p, r))

\* Result of Table::remove: <<return value, new rows>>.
TableRemoveResult(rows, p) ==
    LET kept == RemoveRows(rows, p) IN <<Len(kept) < Len(rows), kept>>

\* History: a call made outside the transaction ends the transaction's
\* exclusive use of the tables; what was recorded for it is dropped.
NoSnap == [t \in TableNames |-> <<>>]
Forget ==
    /\ clean' = [x \in Txs |-> FALSE]
    /\ allTrue' = [x \in Txs |-> FALSE]
    /\ shape' = [x \in Txs |-> FALSE]
    /\ snap' = [x \in Txs |-> NoSnap]
    /\ writes' = [x \in Txs |-> {}]

\* Table::insert
TableInsert(t, row) ==
    LET res == TableInsertResult(columns_(t), rows_[t], row) IN
    /\ rows_' = [rows_ EXCEPT ![t] = res[2]]
    /\ last' = Returned(res[1], <<>>)
    /\ Forget
    /\ UNCHANGED <<tables_, active_, rollback_operations_, life>>
    /\ UNCHANGED <<threads, store, aside>>

\* Table::update
TableUpdate(t, row, p) ==
    LET res == TableUpdateResult(columns_(t), rows_[t], row, p) IN
    /\ rows_' = [rows_ EXCEPT ![t] = res[2]]
    /\ last' = Returned(res[1], <<>>)
    /\ Forget
    /\ UNCHANGED <<tables_, active_, rollback_operations_, life>>
    /\ UNCHANGED <<threads, store, aside>>

\* Table::remove
TableRemove(t, p) ==
    LET res == TableRemoveResult(rows_[t], p) IN
    /\ rows_' = [rows_ EXCEPT ![t] = res[2]]
    /\ last' = Returned(res[1], <<>>)
    /\ Forget
    /\ UNCHANGED <<tables_, active_, rollback_operations_, life>>
    /\ UNCHANGED <<threads, store, aside>>

\* Table::select
TableSelect(t, p) ==
    /\ last' = Returned(TRUE, SelectRows(rows_[t], p))
    /\ UNCHANGED <<tables_, rows_, active_, rollback_operations_, life, snap, clean, allTrue, shape, writes>>
    /\ UNCHANGED <<threads, store, aside>>

\* ------------------------------------------------------------------------
\* Transaction
\* ------------------------------------------------------------------------
\* The compensating actions (the closures pushed on rollback_operations_).
InsertUndo(row) == [kind |-> "insert", row |-> row, rows |-> <<>>]
UpdateUndo(original_row) == [kind |-> "update", row |-> original_row, rows |-> <<>>]
RemoveUndo(deleted_rows) == [kind |-> "remove", row |-> <<>>, rows |-> deleted_rows]

\* The closure of Transaction::insert: erase every row equal to the inserted one.
UndoInsert(rows, row) == SelectSeq(rows, LAMBDA r : ~RowEq(r, row))

\* The closure of Transaction::update: the first row with the original's
\* primary-key value (or, without a primary key, the first row equal to the
\* original) is overwritten by the original; then the loop breaks.
UndoUpdate(cols, rows, original_row) ==
    LET pk_index == findPrimaryKeyIndex(cols)
        hit == [k \in 1..Len(rows) |->
                   IF pk_index > 0
                   THEN ValueEq(rows[k][pk_index], original_row[pk_index])
                   ELSE RowEq(rows[k], original_row)]
        i == FirstIndex(hit, 1, Len(rows))
    IN IF i = 0 THEN rows ELSE [rows EXCEPT ![i] = original_row]

\* The closure of Transaction::remove: push every deleted row back.
UndoRemove(rows, deleted_rows) == rows \o deleted_rows

\* Running one compensating action on the rows of its table.
RunUndo(cols, rows, e) ==
    CASE e.kind = "insert" -> UndoInsert(rows, e.row)
      [] e.kind = "update" -> UndoUpdate(cols, rows, e.row)
      [] e.kind = "remove" -> UndoRemove(rows, e.rows)

RECURSIVE UndoTable(_, _, _, _)
\* The inner loop of Transaction::rollback: ops[k], ops[k-1], ..., ops[1].
UndoTable(cols, rows, ops, k) ==
    IF k = 0 THEN rows
    ELSE UndoTable(cols, RunUndo(cols, rows, ops[k]), ops, k - 1)

RECURSIVE RollbackFrom(_, _, _)
\* The outer loop of Transaction::rollback: the map's keys from last to first.
RollbackFrom(all, log, i) ==
    IF i = 0 THEN all
    ELSE LET t == MapOrder[i] IN
         RollbackFrom([all EXCEPT ![t] = UndoTable(columns_(t), all[t], log[t], Len(log[t]))],
                      log, i - 1)

\* Rows of every table after Transaction::rollback ran the whole log.
RollbackRows(all, log) == RollbackFrom(all, log, Len(MapOrder))

\* Number of compensating actions a transaction holds.
RECURSIVE LogSizeFrom(_, _)
LogSizeFrom(log, i) == IF i = 0 THEN 0 ELSE Len(log[MapOrder[i]]) + LogSizeFrom(log, i - 1)
LogSize(log) == LogSizeFrom(log, Len(MapOrder))

RECURSIVE HeldRows(_, _)
\* Number of rows the remove closures ops[1..k] would push back.
HeldRows(ops, k) == IF k = 0 THEN 0 ELSE Len(ops[k].rows) + HeldRows(ops, k - 1)

\* Whether table t has room for one more row: the rows it holds plus the rows
\* a rollback may push back stay below MaxRows (this bounds the model).
HasRoom(t) ==
    \A x \in Txs :
        Len(rows_[t]) + HeldRows(rollback_operations_[x][t],
                                 Len(rollback_operations_[x][t])) < MaxRows

\* Database::getTable: whether a table is registered under the name.
getTable(t) == t \in tables_


\* TxInsertWrite that pushes the row before it looks at the constraints.
TxInsertWritePushesFirst(cols, rows, row) ==
    IF constraint_violated(cols, rows, row)
    THEN <<FALSE, Append(rows, row), <<>> >>
    ELSE <<TRUE, Append(rows, row), <<InsertUndo(row)>> >>

\* Write phase of Transaction::insert under the exclusive lock:
\* <<result, new rows, compensating actions to append>>.
TxInsertWrite(cols, rows, row) ==
    IF constraint_violated(cols, rows, row)
    THEN <<FALSE, rows, <<>> >>
    ELSE <<TRUE, Append(rows, row), <<InsertUndo(row)>> >>

\* One UpdateUndo per snapshotted row, in snapshot order.
UpdateUndos(original_rows) ==
    [k \in 1..Len(original_rows) |-> UpdateUndo(original_rows[k])]

\* TxUpdateWrite that overwrites the first matching row only.
TxUpdateWriteFirst(rows, row, p, original_rows) ==
    LET result == SelectRows(rows, p) # <<>> IN
    <<result,
      UpdateFirstRow(rows, row, p),
      IF result /\ original_rows # <<>> THEN UpdateUndos(original_rows) ELSE <<>> >>

\* Write phase of Transaction::update under the exclusive lock, given the rows
\* its read phase snapshotted.
TxUpdateWrite(rows, row, p, original_rows) ==
    LET result == SelectRows(rows, p) # <<>> IN
    <<result,
      UpdateRows(rows, row, p),
      IF result /\ original_rows # <<>> THEN UpdateUndos(original_rows) ELSE <<>> >>

\* Write phase of Transaction::remove under the exclusive lock, given the rows
\* its read phase snapshotted.
TxRemoveWrite(rows, p, deleted_rows) ==
    LET kept == RemoveRows(rows, p)
        result == Len(kept) < Len(rows)
    IN <<result,
         kept,
         IF result /\ deleted_rows # <<>> THEN <<RemoveUndo(deleted_rows)>> ELSE <<>> >>

\* Whether a call counts as one of the shapes of the rollback scenario: an
\* insert with a fresh primary-key value into a table that has a primary key.
FreshKeyInsert(t, row) ==
    /\ getTable(t)
    /\ Len(row) = Len(columns_(t))
    /\ findPrimaryKeyIndex(columns_(t)) > 0
    /\ LET pk == findPrimaryKeyIndex(columns_(t)) IN
       \A k \in 1..Len(rows_[t]) : rows_[t][k][pk] # row[pk]

\* ... or an update of one existing row that keeps its primary-key value.
KeyKeepingUpdate(t, row, p) ==
    /\ getTable(t)
    /\ Len(row) = Len(columns_(t))
    /\ findPrimaryKeyIndex(columns_(t)) > 0
    /\ LET pk == findPrimaryKeyIndex(columns_(t))
           hit == {k \in 1..Len(rows_[t]) : PredHolds(p, rows_[t][k])}
       IN /\ Cardinality(hit) = 1
          /\ \A k \in hit : rows_[t][k][pk] = row[pk]

\* Database::beginTransaction / Transaction::Transaction
Begin(x) ==
    /\ life[x] = "none"
    /\ life' = [life EXCEPT ![x] = "active"]
    /\ active_' = [active_ EXCEPT ![x] = TRUE]
    /\ rollback_operations_' = [rollback_operations_ EXCEPT ![x] = EmptyLog]
    /\ snap' = [snap EXCEPT ![x] = rows_]
    /\ clean' = [clean EXCEPT ![x] = TRUE]
    /\ allTrue' = [allTrue EXCEPT ![x] = TRUE]
    /\ shape' = [shape EXCEPT ![x] = TRUE]
    /\ writes' = [writes EXCEPT ![x] = {}]
    /\ last' = Returned(TRUE, <<>>)
    /\ UNCHANGED <<tables_, rows_>>
    /\ UNCHANGED <<threads, store, aside>>

\* The bookkeeping every mutating Transaction call shares.
TxCallDone(x, ret, newRows, undos, t, isShape, written) ==
    /\ LogSize(rollback_operations_[x]) + Len(undos) <= MaxTxOps
    /\ rows_' = newRows
    /\ rollback_operations_' =
          IF undos = <<>> THEN rollback_operations_
          ELSE [rollback_operations_ EXCEPT ![x][t] = @ \o undos]
    /\ allTrue' = [allTrue EXCEPT ![x] = @ /\ ret]
    /\ shape' = [shape EXCEPT ![x] = @ /\ isShape]
    /\ writes' = [writes EXCEPT ![x] = IF ret /\ clean[x] THEN @ \cup written ELSE @]
    /\ UNCHANGED <<tables_, active_, life, snap, clean>>
    /\ UNCHANGED <<threads, store, aside>>

\* Result of Transaction::insert: <<return value, new rows of every table,
\* compensating actions recorded>>.  The early returns come first: inactive
\* transaction, unknown table, wrong number of values.
TxInsertResult(x, t, row) ==
    IF active_[x] /\ getTable(t) /\ Len(row) = Len(columns_(t))
    THEN LET w == TxInsertWrite(columns_(t), rows_[t], row)
         IN <<w[1], [rows_ EXCEPT ![t] = w[2]], w[3]>>
    ELSE <<FALSE, rows_, <<>> >>

\* Transaction::insert
TxInsert(x, t, row) ==
    /\ life[x] # "none"
    /\ LET w == TxInsertResult(x, t, row)
       IN /\ TxCallDone(x, w[1], w[2], w[3], t, FreshKeyInsert(t, row), {<<t, row>>})
          /\ last' = Returned(w[1], <<>>)

\* Result of Transaction::update, as TxInsertResult.
TxUpdateResult(x, t, row, p) ==
    IF active_[x] /\ getTable(t) /\ Len(row) = Len(columns_(t))
    THEN LET w == TxUpdateWrite(rows_[t], row, p, SelectRows(rows_[t], p))
         IN <<w[1], [rows_ EXCEPT ![t] = w[2]], w[3]>>
    ELSE <<FALSE, rows_, <<>> >>

\* Transaction::update
TxUpdate(x, t, row, p) ==
    /\ life[x] # "none"
    /\ LET w == TxUpdateResult(x, t, row, p)
       IN /\ TxCallDone(x, w[1], w[2], w[3], t, KeyKeepingUpdate(t, row, p), {<<t, row>>})
          /\ last' = Returned(w[1], <<>>)

\* Result of Transaction::remove, as TxInsertResult.
TxRemoveResult(x, t, p) ==
    IF active_[x] /\ getTable(t)
    THEN LET w == TxRemoveWrite(rows_[t], p, SelectRows(rows_[t], p))
         IN <<w[1], [rows_ EXCEPT ![t] = w[2]], w[3]>>
    ELSE <<FALSE, rows_, <<>> >>

\* Transaction::remove
TxRemove(x, t, p) ==
    /\ life[x] # "none"
    /\ LET w == TxRemoveResult(x, t, p)
       IN /\ TxCallDone(x, w[1], w[2], w[3], t, FALSE, {})
          /\ last' = Returned(w[1], <<>>)

\* Transaction::select
TxSelect(x, t, p) ==
    /\ life[x] # "none"
    /\ last' = Returned(TRUE, IF active_[x] /\ getTable(t) THEN SelectRows(rows_[t], p) ELSE <<>>)
    /\ UNCHANGED <<tables_, rows_, active_, rollback_operations_, life, snap, clean,
                   allTrue, shape, writes>>
    /\ UNCHANGED <<threads, store, aside>>

\* CommitResult with the assignment active_ = false left out.
CommitKeepsActive(active, log) ==
    IF ~active THEN <<FALSE, active, log>> ELSE <<TRUE, active, [t \in TableNames |-> <<>>]>>

\* The state change of Transaction::commit: <<return value, active_, log>>.
CommitResult(active, log) ==
    IF ~active THEN <<FALSE, active, log>> ELSE <<TRUE, FALSE, EmptyLog>>

\* Transaction::commit
Commit(x) ==
    /\ life[x] # "none"
    /\ LET c == CommitResult(active_[x], rollback_operations_[x]) IN
       /\ active_' = [active_ EXCEPT ![x] = c[2]]
       /\ rollback_operations_' = [rollback_operations_ EXCEPT ![x] = c[3]]
       /\ life' = [life EXCEPT ![x] = IF c[1] /\ @ = "active" THEN "committed" ELSE @]
       /\ last' = Returned(c[1], <<>>)
    /\ Forget
    /\ UNCHANGED <<tables_, rows_>>
    /\ UNCHANGED <<threads, store, aside>>

\* RollbackResult with the assignment active_ = false left out.
RollbackKeepsActive(all, active, log) ==
    IF ~active THEN <<all, active, log>>
    ELSE <<RollbackRows(all, log), active, [t \in TableNames |-> <<>>]>>

\* The state change of Transaction::rollback: <<rows, active_, log>>.
RollbackResult(all, active, log) ==
    IF ~active THEN <<all, active, log>>
    ELSE <<RollbackRows(all, log), FALSE, EmptyLog>>

\* Transaction::rollback
Rollback(x) ==
    /\ life[x] # "none"
    /\ LET r == RollbackResult(rows_, active_[x], rollback_operations_[x]) IN
       /\ rows_' = r[1]
       /\ active_' = [active_ EXCEPT ![x] = r[2]]
       /\ rollback_operations_' = [rollback_operations_ EXCEPT ![x] = r[3]]
       /\ life' = [life EXCEPT ![x] = IF @ = "active" THEN "rolledback" ELSE @]
       /\ last' = Returned(TRUE, <<>>)
    /\ Forget
    /\ UNCHANGED tables_
    /\ UNCHANGED <<threads, store, aside>>

\* The state change of Transaction::~Transaction: rollback() when active_.
DestroyResult(all, active, log) ==
    IF active THEN RollbackResult(all, active, log) ELSE <<all, active, log>>

\* Transaction::~Transaction (the last shared_ptr goes away)
Destroy(x) ==
    /\ life[x] # "none"
    /\ LET r == DestroyResult(rows_, active_[x], rollback_operations_[x]) IN
       /\ rows_' = r[1]
       /\ active_' = [active_ EXCEPT ![x] = FALSE]
       /\ rollback_operations_' = [rollback_operations_ EXCEPT ![x] = EmptyLog]
       /\ life' = [life EXCEPT ![x] = "none"]
       /\ last' = Returned(TRUE, <<>>)
    /\ Forget
    /\ UNCHANGED tables_
    /\ UNCHANGED <<threads, store, aside>>

\* ------------------------------------------------------------------------
\* Sequential callers: every call runs to completion before the next starts
\* ------------------------------------------------------------------------
\* The databases the callers start from: one table, created empty.
\* std::shared_mutex: the thread that owns it exclusively (0: none) and the
\* threads that own it shared.
Unlocked == [writer |-> 0, readers |-> {}]

\* A thread that is inside no call.
NoArg == [table |-> MissingTable, row |-> <<>>]

\* A thread whose select has not returned yet.
NotSeen == [valid |-> FALSE, count |-> 0, started |-> 0]

\* No file on disk: std::ifstream::is_open() is false.
NoFile == <<-1>>

\* No caller compares Values, no transaction has used a table, no rollback ran.
NoProbe == [done |-> FALSE]
AsideInit ==
    /\ probe = NoProbe
    /\ used = [x \in Txs |-> <<>>]
    /\ undone = <<>>
    /\ born = [t \in TableNames |-> 0]
    /\ wild = {}

\* A Database object that was not constructed.
NoDatabase == [made |-> FALSE, ret |-> FALSE, tables |-> <<>>]

Schemas == {{"P"}, {"N"}, {"U"}}

\* Everything but the registered names: no row, no transaction, no thread in a call.
Fresh ==
    /\ schema_ = [t \in TableNames |-> FixtureColumns(t)]
    /\ file_ = NoFile
    /\ other_ = NoDatabase
    /\ db_mutex_ = FALSE
    /\ held = NoDatabase
    /\ phase = "build"
    /\ AsideInit
    /\ rows_ = [t \in TableNames |-> <<>>]
    /\ active_ = [x \in Txs |-> FALSE]
    /\ rollback_operations_ = [x \in Txs |-> EmptyLog]
    /\ life = [x \in Txs |-> "none"]
    /\ snap = [x \in Txs |-> NoSnap]
    /\ clean = [x \in Txs |-> FALSE]
    /\ allTrue = [x \in Txs |-> FALSE]
    /\ shape = [x \in Txs |-> FALSE]
    /\ writes = [x \in Txs |-> {}]
    /\ last = Returned(TRUE, <<>>)
    /\ mutex_ = [t \in TableNames |-> Unlocked]
    /\ pc = [th \in Threads |-> "idle"]
    /\ arg = [th \in Threads |-> NoArg]
    /\ started = 0
    /\ initial = 0
    /\ acked = [row \in RowInputs |-> 0]
    /\ seen = [th \in Threads |-> NotSeen]

Init ==
    /\ tables_ \in Schemas
    /\ Fresh

\* Arguments of a call on a name that is not registered (the call returns
\* before it looks at them).
AnyRow == <<IntValue(1)>>
AnyPred == [kind |-> "all", v |-> IntValue(0)]

\* Calls on the Table of a registered name.
TableCall ==
    \/ \E t \in tables_, row \in RowInputs : HasRoom(t) /\ TableInsert(t, row)
    \/ \E t \in tables_, row \in RowInputs, p \in Predicates : TableUpdate(t, row, p)
    \/ \E t \in tables_, p \in Predicates : TableRemove(t, p)

\* Calls on a Transaction, naming a registered table.
TxCall ==
    \/ \E x \in CallerTxs : Begin(x)
    \/ \E x \in CallerTxs, t \in tables_, row \in RowInputs : HasRoom(t) /\ TxInsert(x, t, row)
    \/ \E x \in CallerTxs, t \in tables_, row \in RowInputs, p \in Predicates : TxUpdate(x, t, row, p)
    \/ \E x \in CallerTxs, t \in tables_, p \in Predicates : TxRemove(x, t, p)
    \/ \E x \in CallerTxs, t \in tables_, p \in Predicates :
          life[x] \in {"committed", "rolledback"} /\ TxSelect(x, t, p)
    \/ \E x \in CallerTxs : Commit(x)
    \/ \E x \in CallerTxs : Rollback(x)
    \/ \E x \in CallerTxs : Destroy(x)

\* Calls on a Transaction, naming a table that is not registered.
TxCallMissing ==
    \/ \E x \in CallerTxs : TxInsert(x, MissingTable, AnyRow)
    \/ \E x \in CallerTxs : TxUpdate(x, MissingTable, AnyRow, AnyPred)
    \/ \E x \in CallerTxs : TxRemove(x, MissingTable, AnyPred)
    \/ \E x \in CallerTxs :
          life[x] \in {"committed", "rolledback"} /\ TxSelect(x, MissingTable, AnyPred)

\* Queries on live data: Table::select, and Transaction::select while active.
SelectCall ==
    \/ \E t \in tables_, p \in Predicates : TableSelect(t, p)
    \/ \E x \in CallerTxs, t \in tables_, p \in Predicates :
          life[x] = "active" /\ TxSelect(x, t, p)
    \/ \E x \in CallerTxs : life[x] = "active" /\ TxSelect(x, MissingTable, AnyPred)

\* The sequential callers of Table and Transaction (createTable and dropTable
\* are not called).
Next == TableCall \/ TxCall \/ TxCallMissing

Spec == Init /\ [][Next]_vars

\* The same callers, also querying live data.
NextSel == TableCall \/ TxCall \/ TxCallMissing \/ SelectCall

SpecSel == Init /\ [][NextSel]_vars

\* Callers of the Table interface alone insert while the table holds fewer
\* rows than this.
MaxTableRows == 3

\* Callers of the Table interface alone; no transaction is ever begun.
NextTable ==
    \/ TableCall
    \/ \E t \in tables_, row \in RowInputs : Len(rows_[t]) < MaxTableRows /\ TableInsert(t, row)
    \/ \E t \in tables_, p \in Predicates : TableSelect(t, p)

SpecTable == Init /\ [][NextTable]_vars

\* ------------------------------------------------------------------------
\* Calls running on concurrent threads, one step per lock operation
\* ------------------------------------------------------------------------
\* Threads enter at most this many insert calls in all.
MaxStarted == 2

\* A lock that never waits for its owners.
CanLockAlways(m) == TRUE

\* std::unique_lock on Table::mutex_ succeeds: nobody owns the mutex.
CanLockExclusive(m) == m.writer = 0 /\ m.readers = {}

\* A shared lock that never waits for the exclusive owner.
CanLockSharedAlways(m) == TRUE

\* std::shared_lock on Table::mutex_ succeeds: nobody owns it exclusively.
CanLockShared(m) == m.writer = 0

\* What no step of a thread inside insert or select changes.
ThreadFrame ==
    UNCHANGED <<tables_, active_, life, snap, clean, allTrue, shape, writes, last, initial, store, aside>>

\* The call returns to the thread's caller.
Return(th) ==
    /\ pc' = [pc EXCEPT ![th] = "idle"]
    /\ arg' = [arg EXCEPT ![th] = NoArg]

\* Table::insert is entered; a row of the wrong size returns false at once.
TableInsertCall(th, t, row) ==
    /\ pc[th] = "idle"
    /\ started < MaxStarted
    /\ started' = started + 1
    /\ IF Len(row) # Len(columns_(t))
       THEN UNCHANGED <<pc, arg>>
       ELSE /\ pc' = [pc EXCEPT ![th] = "insert_lock"]
            /\ arg' = [arg EXCEPT ![th] = [table |-> t, row |-> row]]
    /\ UNCHANGED <<rows_, rollback_operations_, mutex_, acked, seen>>
    /\ ThreadFrame

\* Table::insert: the unique_lock's constructor returns.
TableInsertLock(th) ==
    /\ pc[th] = "insert_lock"
    /\ CanLockExclusive(mutex_[arg[th].table])
    /\ mutex_' = [mutex_ EXCEPT ![arg[th].table].writer = th]
    /\ pc' = [pc EXCEPT ![th] = "insert_check"]
    /\ UNCHANGED <<rows_, rollback_operations_, arg, started, acked, seen>>
    /\ ThreadFrame

\* Table::insert: the scans of the primary key and of the unique columns; a
\* violation returns false and the lock's destructor releases the mutex.
TableInsertCheck(th) ==
    /\ pc[th] = "insert_check"
    /\ LET t == arg[th].table IN
       IF constraint_violated(columns_(t), rows_[t], arg[th].row)
       THEN /\ Return(th)
            /\ mutex_' = [mutex_ EXCEPT ![t].writer = 0]
       ELSE /\ pc' = [pc EXCEPT ![th] = "insert_append"]
            /\ UNCHANGED <<arg, mutex_>>
    /\ UNCHANGED <<rows_, rollback_operations_, started, acked, seen>>
    /\ ThreadFrame

\* Table::insert: rows_.push_back(row); return true.
TableInsertAppend(th) ==
    /\ pc[th] = "insert_append"
    /\ LET t == arg[th].table
           row == arg[th].row
       IN /\ rows_' = [rows_ EXCEPT ![t] = Append(@, row)]
          /\ mutex_' = [mutex_ EXCEPT ![t].writer = 0]
          /\ acked' = [acked EXCEPT ![row] = @ + 1]
    /\ Return(th)
    /\ UNCHANGED <<rollback_operations_, started, seen>>
    /\ ThreadFrame

\* Transaction::insert is entered: the early returns, then the retry loop.
TxInsertCall(th, t, row) ==
    /\ pc[th] = "idle"
    /\ started < MaxStarted
    /\ started' = started + 1
    /\ IF active_[th] /\ getTable(t) /\ Len(row) = Len(columns_(t))
       THEN /\ pc' = [pc EXCEPT ![th] = "tx_insert_try"]
            /\ arg' = [arg EXCEPT ![th] = [table |-> t, row |-> row]]
       ELSE UNCHANGED <<pc, arg>>
    /\ UNCHANGED <<rows_, rollback_operations_, mutex_, acked, seen>>
    /\ ThreadFrame

\* Transaction::insert: a try_to_lock that owns the lock.
TxInsertTryLock(th) ==
    /\ pc[th] = "tx_insert_try"
    /\ CanLockExclusive(mutex_[arg[th].table])
    /\ mutex_' = [mutex_ EXCEPT ![arg[th].table].writer = th]
    /\ pc' = [pc EXCEPT ![th] = "tx_insert_check"]
    /\ UNCHANGED <<rows_, rollback_operations_, arg, started, acked, seen>>
    /\ ThreadFrame

\* Transaction::insert: every try failed until the 500 ms ran out; the call
\* returns write_success && result = false.
TxInsertTimeout(th) ==
    /\ pc[th] = "tx_insert_try"
    /\ ~CanLockExclusive(mutex_[arg[th].table])
    /\ Return(th)
    /\ UNCHANGED <<rows_, rollback_operations_, mutex_, started, acked, seen>>
    /\ ThreadFrame

\* Transaction::insert: the constraint scans under the lock.
TxInsertCheck(th) ==
    /\ pc[th] = "tx_insert_check"
    /\ LET t == arg[th].table IN
       IF constraint_violated(columns_(t), rows_[t], arg[th].row)
       THEN /\ Return(th)
            /\ mutex_' = [mutex_ EXCEPT ![t].writer = 0]
       ELSE /\ pc' = [pc EXCEPT ![th] = "tx_insert_append"]
            /\ UNCHANGED <<arg, mutex_>>
    /\ UNCHANGED <<rows_, rollback_operations_, started, acked, seen>>
    /\ ThreadFrame

\* Transaction::insert: push_back of the row and of its compensating action,
\* then return true.
TxInsertAppend(th) ==
    /\ pc[th] = "tx_insert_append"
    /\ LET t == arg[th].table
           row == arg[th].row
       IN /\ rows_' = [rows_ EXCEPT ![t] = Append(@, row)]
          /\ rollback_operations_' =
                [rollback_operations_ EXCEPT ![th][t] = Append(@, InsertUndo(row))]
          /\ mutex_' = [mutex_ EXCEPT ![t].writer = 0]
          /\ acked' = [acked EXCEPT ![row] = @ + 1]
    /\ Return(th)
    /\ UNCHANGED <<started, seen>>
    /\ ThreadFrame

\* What a select that returned rows tells its thread.
Seen(rows) == [valid |-> TRUE, count |-> Len(rows), started |-> started]

\* Table::select: the shared_lock's constructor returns.
TableSelectLock(th, t) ==
    /\ pc[th] = "idle"
    /\ CanLockShared(mutex_[t])
    /\ mutex_' = [mutex_ EXCEPT ![t].readers = @ \cup {th}]
    /\ pc' = [pc EXCEPT ![th] = "select_read"]
    /\ arg' = [arg EXCEPT ![th] = [table |-> t, row |-> <<>>]]
    /\ UNCHANGED <<rows_, rollback_operations_, started, acked, seen>>
    /\ ThreadFrame

\* Table::select: the scan of rows_ and the return.
TableSelectRead(th) ==
    /\ pc[th] = "select_read"
    /\ LET t == arg[th].table IN
       /\ seen' = [seen EXCEPT ![th] = Seen(SelectRows(rows_[t], AnyPred))]
       /\ mutex_' = [mutex_ EXCEPT ![t].readers = @ \ {th}]
    /\ Return(th)
    /\ UNCHANGED <<rows_, rollback_operations_, started, acked>>
    /\ ThreadFrame

\* Transaction::select: a shared try_to_lock that owns the lock.
TxSelectTryLock(th, t) ==
    /\ pc[th] = "idle"
    /\ active_[th] /\ getTable(t)
    /\ CanLockShared(mutex_[t])
    /\ mutex_' = [mutex_ EXCEPT ![t].readers = @ \cup {th}]
    /\ pc' = [pc EXCEPT ![th] = "tx_select_read"]
    /\ arg' = [arg EXCEPT ![th] = [table |-> t, row |-> <<>>]]
    /\ UNCHANGED <<rows_, rollback_operations_, started, acked, seen>>
    /\ ThreadFrame

\* Transaction::select: every try failed until the 500 ms ran out; the call
\* returns an empty vector.
TxSelectTimeout(th, t) ==
    /\ pc[th] = "idle"
    /\ active_[th] /\ getTable(t)
    /\ ~CanLockShared(mutex_[t])
    /\ seen' = [seen EXCEPT ![th] = Seen(<<>>)]
    /\ UNCHANGED <<rows_, rollback_operations_, mutex_, pc, arg, started, acked>>
    /\ ThreadFrame

\* Transaction::select: the scan of rows_ and the return.
TxSelectRead(th) ==
    /\ pc[th] = "tx_select_read"
    /\ LET t == arg[th].table IN
       /\ seen' = [seen EXCEPT ![th] = Seen(SelectRows(rows_[t], AnyPred))]
       /\ mutex_' = [mutex_ EXCEPT ![t].readers = @ \ {th}]
    /\ Return(th)
    /\ UNCHANGED <<rows_, rollback_operations_, started, acked>>
    /\ ThreadFrame

\* The state the threads start in: one table holding no row or one row, and
\* every thread's transaction begun.
ThreadsInit ==
    /\ tables_ \in Schemas
    /\ schema_ = [t \in TableNames |-> FixtureColumns(t)]
    /\ file_ = NoFile
    /\ other_ = NoDatabase
    /\ db_mutex_ = FALSE
    /\ held = NoDatabase
    /\ phase = "build"
    /\ AsideInit
    /\ \E t \in tables_ :
          \E r \in {<<>>} \cup {<<row>> : row \in [1..Len(columns_(t)) -> Values]} :
             /\ rows_ = [u \in TableNames |-> IF u = t THEN r ELSE <<>>]
             /\ initial = Len(r)
    /\ active_ = [x \in Txs |-> TRUE]
    /\ rollback_operations_ = [x \in Txs |-> EmptyLog]
    /\ life = [x \in Txs |-> "active"]
    /\ snap = [x \in Txs |-> NoSnap]
    /\ clean = [x \in Txs |-> FALSE]
    /\ allTrue = [x \in Txs |-> FALSE]
    /\ shape = [x \in Txs |-> FALSE]
    /\ writes = [x \in Txs |-> {}]
    /\ last = Returned(TRUE, <<>>)
    /\ mutex_ = [t \in TableNames |-> Unlocked]
    /\ pc = [th \in Threads |-> "idle"]
    /\ arg = [th \in Threads |-> NoArg]
    /\ started = 0
    /\ acked = [row \in RowInputs |-> 0]
    /\ seen = [th \in Threads |-> NotSeen]

NextThreads ==
    \/ \E th \in Writers, t \in tables_, row \in RowInputs : TableInsertCall(th, t, row)
    \/ \E th \in Writers : TableInsertLock(th)
    \/ \E th \in Writers : TableInsertCheck(th)
    \/ \E th \in Writers : TableInsertAppend(th)
    \/ \E th \in Writers, t \in tables_, row \in RowInputs : TxInsertCall(th, t, row)
    \/ \E th \in Writers : TxInsertTryLock(th)
    \/ \E th \in Writers : TxInsertTimeout(th)
    \/ \E th \in Writers : TxInsertCheck(th)
    \/ \E th \in Writers : TxInsertAppend(th)
    \/ \E th \in Readers, t \in tables_ : TableSelectLock(th, t)
    \/ \E th \in Readers : TableSelectRead(th)
    \/ \E th \in Readers, t \in tables_ : TxSelectTryLock(th, t)
    \/ \E th \in Readers, t \in tables_ : TxSelectTimeout(th, t)
    \/ \E th \in Readers : TxSelectRead(th)

SpecThreads == ThreadsInit /\ [][NextThreads]_vars

\* ------------------------------------------------------------------------
\* Database: the registry of tables
\* ------------------------------------------------------------------------
\* The outcome of a call that left by an exception instead of returning.
Thrown(what) == [ret |-> FALSE, rows |-> <<>>, threw |-> what]
Threw(outcome) == "threw" \in DOMAIN outcome

\* A column list with two primary keys (the one table_test.cc builds).
TwoKeys == <<Column("id", TRUE, TRUE, TRUE), Column("id2", TRUE, TRUE, TRUE)>>

\* The names and the column lists the callers of the Database use.
CallNames == {"N", "P"}
ColumnLists(name) == {FixtureColumns(name), TwoKeys}

\* Table::Table: the constructor throws std::runtime_error when more than one
\* column is a primary key.
TableCtorNeverThrows(columns) == FALSE
TableCtorThrows(columns) ==
    Cardinality({k \in 1..Len(columns) : columns[k].primary_key}) > 1

\* tables_.find(name) != tables_.end()
FindNothing(name) == FALSE
FindTable(name) == name \in tables_

\* What no Database call on the registry changes.
DbFrame ==
    UNCHANGED <<active_, rollback_operations_, life, snap, clean, allTrue, shape, writes, threads,
                file_, other_, held, aside>>

\* The caller has not loaded a file.
Building == phase \in {"build", "saved", "changed"}
\* A call on the registry after saveToFile.
Changed == IF phase = "saved" THEN "changed" ELSE phase

\* Database::createTable. std::lock_guard takes mutex_ on entry and gives it
\* back on every way out, the exception included. The right operand of the
\* assignment (std::make_unique<Table>) is evaluated before tables_[name]
\* (C++17), so a throwing constructor leaves tables_ without an entry.
CreateTable(name, columns) ==
    /\ db_mutex_ = FALSE
    /\ IF FindTable(name)
       THEN /\ last' = Returned(FALSE, <<>>)
            /\ UNCHANGED <<tables_, schema_, rows_>>
       ELSE IF TableCtorThrows(columns)
       THEN /\ last' = Thrown("runtime_error")
            /\ UNCHANGED <<tables_, schema_, rows_>>
       ELSE /\ tables_' = tables_ \cup {name}
            /\ schema_' = [schema_ EXCEPT ![name] = columns]
            /\ rows_' = [rows_ EXCEPT ![name] = <<>>]
            /\ last' = Returned(TRUE, <<>>)
    /\ db_mutex_' = FALSE
    /\ phase' = Changed
    /\ DbFrame

\* Database::dropTable
DropTable(name) ==
    /\ db_mutex_ = FALSE
    /\ IF ~FindTable(name)
       THEN /\ last' = Returned(FALSE, <<>>)
            /\ UNCHANGED <<tables_, schema_, rows_>>
       ELSE /\ tables_' = tables_ \ {name}
            /\ schema_' = [schema_ EXCEPT ![name] = <<>>]
            /\ rows_' = [rows_ EXCEPT ![name] = <<>>]
            /\ last' = Returned(TRUE, <<>>)
    /\ db_mutex_' = FALSE
    /\ phase' = Changed
    /\ DbFrame

\* Database::getTable: ret tells whether the pointer is non-null, rows is
\* what the Table it points to holds.
GetTable(name) ==
    /\ db_mutex_ = FALSE
    /\ last' = IF FindTable(name) THEN Returned(TRUE, rows_[name]) ELSE Returned(FALSE, <<>>)
    /\ db_mutex_' = FALSE
    /\ UNCHANGED <<tables_, schema_, rows_, phase>>
    /\ DbFrame

\* The names a Database can hold a table under: the ones the callers use,
\* the empty name, the name of one NUL character, and OtherName for every
\* other string a file can spell.
EmptyName == ""
NulName == "\\0"
OtherName == "?"
DbNames == CallNames \cup {EmptyName, NulName, OtherName}

\* The rows the Database holds in all its tables together.
MaxDbRows == 2
DbRowCount == Cardinality(UNION {{t} \X (1..Len(rows_[t])) : t \in tables_})

\* ------------------------------------------------------------------------
\* Database: the file format (Value/Table::serialize, Database::saveToFile)
\* ------------------------------------------------------------------------
\* sizeof(size_t), sizeof(an enum or an int), sizeof(double) of the build.
SizeBytes == 8
WordBytes == 4
DoubleBytes == 8

\* A default-constructed Value.
NullValue == [type |-> "NULL_TYPE", int_val |-> 0]

\* The bytes of the strings the model names. Every other byte string reads
\* back as OtherName, which is written as '?'.
NameBytes(name) ==
    CASE name = "" -> <<>>
      [] name = NulName -> <<0>>
      [] name = "N" -> <<78>>
      [] name = "P" -> <<80>>
      [] name = "U" -> <<85>>
      [] name = "id" -> <<105, 100>>
      [] name = "id2" -> <<105, 100, 50>>
      [] name = "val" -> <<118, 97, 108>>
      [] name = "code" -> <<99, 111, 100, 101>>
      [] OTHER -> <<63>>
KnownNames == {"", NulName, "N", "P", "U", "id", "id2", "val", "code"}
NameOf(bytes) ==
    IF \E name \in KnownNames : NameBytes(name) = bytes
    THEN CHOOSE name \in KnownNames : NameBytes(name) = bytes
    ELSE OtherName

\* enum Column::Type and enum Value::Type as the build numbers them.
ColumnTypes == <<"INT", "FLOAT", "TEXT", "BLOB">>
ValueTypes == <<"NULL_TYPE", "INT", "FLOAT", "TEXT", "BLOB">>
EnumCode(types, type) ==
    IF \E k \in 1..Len(types) : types[k] = type
    THEN (CHOOSE k \in 1..Len(types) : types[k] = type) - 1
    ELSE 255
EnumOf(types, code) == IF code \in 0..(Len(types) - 1) THEN types[code + 1] ELSE OtherName

\* The object representation of an unsigned number below 2^31, least
\* significant byte first, in w bytes.
Pow256(i) == CASE i = 0 -> 1 [] i = 1 -> 256 [] i = 2 -> 65536 [] i = 3 -> 16777216
LittleEndian(n, w) == [i \in 1..w |-> IF i <= WordBytes THEN (n \div Pow256(i - 1)) % 256 ELSE 0]
\* The object representation of an int (two's complement, four bytes).
IntBytes(n) ==
    IF n >= 0
    THEN LittleEndian(n, WordBytes)
    ELSE LET low == LittleEndian(n + 2147483647 + 1, WordBytes)
         IN [low EXCEPT ![WordBytes] = @ + 128]
BoolByte(b) == IF b THEN <<1>> ELSE <<0>>

\* All byte strings of a sequence of byte strings, one after the other.
RECURSIVE Flatten(_)
Flatten(parts) == IF parts = <<>> THEN <<>> ELSE Head(parts) \o Flatten(Tail(parts))

\* Value::serialize
ValueSerialize(v) ==
    LittleEndian(EnumCode(ValueTypes, v.type), WordBytes) \o
    CASE v.type = "INT" -> IntBytes(v.int_val)
      [] v.type = "FLOAT" -> v.bytes
      [] v.type \in {"TEXT", "BLOB"} -> LittleEndian(Len(v.bytes), SizeBytes) \o v.bytes
      [] OTHER -> <<>>

\* Table::serialize of the table called name with these columns and rows.
TableSerialize(name, columns, rows) ==
    LittleEndian(Len(NameBytes(name)), SizeBytes) \o NameBytes(name) \o
    LittleEndian(Len(columns), SizeBytes) \o
    Flatten([k \in 1..Len(columns) |->
                LittleEndian(Len(NameBytes(columns[k].name)), SizeBytes) \o
                NameBytes(columns[k].name) \o
                LittleEndian(EnumCode(ColumnTypes, columns[k].type), WordBytes) \o
                BoolByte(columns[k].primary_key) \o
                BoolByte(columns[k].not_null) \o
                BoolByte(columns[k].unique)]) \o
    LittleEndian(Len(rows), SizeBytes) \o
    Flatten([k \in 1..Len(rows) |->
                LittleEndian(Len(rows[k]), SizeBytes) \o
                Flatten([j \in 1..Len(rows[k]) |-> ValueSerialize(rows[k][j])])])

\* The orders in which std::unordered_map can hand out the names in S.
Orders(S) == {o \in [1..Cardinality(S) -> S] : \A i, j \in DOMAIN o : i # j => o[i] # o[j]}

\* The bytes Database::saveToFile writes when it meets the tables in this
\* order.
FileImage(order, columns, rows) ==
    LittleEndian(Len(order), SizeBytes) \o
    Flatten([k \in 1..Len(order) |-> TableSerialize(order[k], columns[order[k]], rows[order[k]])])

\* ------------------------------------------------------------------------
\* Database: reading a file (Value/Table::deserialize)
\* ------------------------------------------------------------------------
\* A length that no allocation can satisfy. The model takes every length of
\* 2^31 and more for one (the files it reads hold lengths below 2^31 or of
\* 2^56 and more).
Huge == -1

\* An input stream over the bytes f: the next position, good(), the exception
\* that left the reading code, if one did, and the objects read so far (the
\* locals of the reading code, the latest last).
Opened == [pos |-> 1, good |-> TRUE, fault |-> "", out |-> <<>>]
Push(s, v) == [s EXCEPT !.out = Append(@, v)]
Top(s) == s.out[Len(s.out)]
Pop(s) == [s EXCEPT !.out = SubSeq(@, 1, Len(@) - 1)]
Fail(s, what) == [s EXCEPT !.fault = what]

\* std::istream::read of n bytes: the bytes that arrive ...
Get(f, s, n) ==
    IF ~s.good THEN <<>>
    ELSE [i \in 1..(IF s.pos + n - 1 <= Len(f) THEN n ELSE Len(f) - s.pos + 1) |-> f[s.pos + i - 1]]
\* ... and the stream afterwards: a short read sets failbit, a failed stream
\* reads nothing.
Advance(f, s, n) ==
    IF ~s.good THEN s
    ELSE IF s.pos + n - 1 <= Len(f)
    THEN [s EXCEPT !.pos = @ + n]
    ELSE [s EXCEPT !.pos = Len(f) + 1, !.good = FALSE]

\* The object of w bytes after a read of `got` into it, when it held `before`
\* in every byte.
Filled(got, w, before) == [i \in 1..w |-> IF i <= Len(got) THEN got[i] ELSE before]

\* The number a size_t of these bytes holds.
SizeOf(b) ==
    IF b[5] + b[6] + b[7] + b[8] > 0 \/ b[4] >= 128
    THEN Huge
    ELSE b[1] + 256 * b[2] + 65536 * b[3] + 16777216 * b[4]
\* The number an int of these bytes holds; when not all of its bytes arrived,
\* the int holds what its memory held (junk).
IntOf(got, junk) ==
    IF Len(got) < WordBytes THEN junk
    ELSE IF got[4] >= 128
    THEN got[1] + 256 * got[2] + 65536 * got[3] + 16777216 * (got[4] - 128) - 2147483647 - 1
    ELSE got[1] + 256 * got[2] + 65536 * got[3] + 16777216 * got[4]
\* The enumerator number an enum of these bytes holds.
EnumCodeOf(b) == IF b[2] + b[3] + b[4] > 0 THEN 255 ELSE b[1]
\* What a bool member reads as: false by default; a byte other than 0 and 1
\* is no bool, what it reads as is junk.
BoolOf(got, junk) ==
    IF got = <<>> THEN FALSE
    ELSE IF got[1] \in {0, 1} THEN got[1] = 1 ELSE junk = 1

\* in.read into a size_t initialised to 0.
ReadSize(f, s) ==
    IF s.fault # "" THEN s
    ELSE Push(Advance(f, s, SizeBytes), SizeOf(Filled(Get(f, s, SizeBytes), SizeBytes, 0)))
\* in.read into Value::type, which the constructor set to NULL_TYPE (0).
ReadEnum(f, s) ==
    IF s.fault # "" THEN s
    ELSE Push(Advance(f, s, WordBytes), EnumCodeOf(Filled(Get(f, s, WordBytes), WordBytes, 0)))
\* in.read into an uninitialised int or enum.
ReadInt(f, s, junk) ==
    IF s.fault # "" THEN s
    ELSE Push(Advance(f, s, WordBytes), IntOf(Get(f, s, WordBytes), junk))
\* in.read into a bool member.
ReadBool(f, s, junk) ==
    IF s.fault # "" THEN s
    ELSE Push(Advance(f, s, 1), BoolOf(Get(f, s, 1), junk))

\* std::string(len, '\0') for the length read last, and the read into it; a
\* length no allocation can satisfy throws std::length_error.
TakeBytes(f, s) ==
    IF s.fault # "" THEN s
    ELSE IF Top(s) = Huge THEN Fail(s, "length_error")
    ELSE Push(Advance(f, Pop(s), Top(s)), Filled(Get(f, Pop(s), Top(s)), Top(s), 0))
ReadBytes(f, s) == TakeBytes(f, ReadSize(f, s))

\* The object read last becomes the last element of the vector before it
\* (push_back).
PushFront(s) ==
    IF s.fault # "" THEN s
    ELSE [s EXCEPT !.out = Append(SubSeq(@, 1, Len(@) - 2), <<@[Len(@)]>> \o @[Len(@) - 1])]
PushBack(s) ==
    IF s.fault # "" THEN s
    ELSE [s EXCEPT !.out = Append(SubSeq(@, 1, Len(@) - 2), Append(@[Len(@) - 1], @[Len(@)]))]

\* Value::deserialize: the data that follow the type read last.
FloatValue(s) == Push(Pop(s), [type |-> "FLOAT", bytes |-> Top(s)])
BytesValue(s, type) == IF s.fault # "" THEN s ELSE Push(Pop(s), [type |-> type, bytes |-> Top(s)])
IntRead(s) == Push(Pop(s), IntValue(Top(s)))
TypedValue(f, s, junk) ==
    IF s.fault # "" THEN s
    ELSE LET type == EnumOf(ValueTypes, Top(s)) IN
         CASE type = "INT" -> IntRead(ReadInt(f, Pop(s), junk))
           [] type = "FLOAT" ->
                FloatValue(Push(Advance(f, Pop(s), DoubleBytes),
                                Filled(Get(f, Pop(s), DoubleBytes), DoubleBytes, junk)))
           [] type \in {"TEXT", "BLOB"} -> BytesValue(ReadBytes(f, Pop(s)), type)
           [] type = "NULL_TYPE" -> Push(Pop(s), NullValue)
           [] OTHER -> Push(Pop(s), [type |-> OtherName, int_val |-> junk])
ValueDeserialize(f, s, junk) == TypedValue(f, ReadEnum(f, s), junk)

\* The loop over value_count in Table::deserialize.
RECURSIVE ReadValues(_, _, _, _)
ReadValues(f, s, n, junk) ==
    IF n = 0 \/ s.fault # "" THEN s
    ELSE ReadValues(f, PushBack(ValueDeserialize(f, s, junk)), n - 1, junk)

\* One row: row.reserve(value_count) for the count read last (it throws on a
\* count no allocation can satisfy), then the values.
RowOf(f, s, junk) ==
    IF s.fault # "" THEN s
    ELSE IF Top(s) = Huge THEN Fail(s, "length_error")
    ELSE ReadValues(f, Push(Pop(s), <<>>), Top(s), junk)
ReadRow(f, s, junk) == RowOf(f, ReadSize(f, s), junk)

\* The loop over row_count. With a count no vector can hold, the loop goes on
\* after the stream has failed, pushing empty rows until memory runs out.
RECURSIVE ReadRows(_, _, _, _)
ReadRows(f, s, n, junk) ==
    IF n = 0 \/ s.fault # "" THEN s
    ELSE IF n = Huge /\ ~s.good THEN Fail(s, "bad_alloc")
    ELSE ReadRows(f, PushBack(ReadRow(f, s, junk)), IF n = Huge THEN Huge ELSE n - 1, junk)
RowsOf(f, s, junk) ==
    IF s.fault # "" THEN s ELSE ReadRows(f, Push(Pop(s), <<>>), Top(s), junk)

\* One column: Column col (type uninitialised, the flags false), the reads of
\* its members, and the column they make.
ColumnRead(s) ==
    IF s.fault # "" THEN s
    ELSE [s EXCEPT !.out =
            Append(SubSeq(@, 1, Len(@) - 5),
                   [name |-> NameOf(@[Len(@) - 4]), type |-> EnumOf(ColumnTypes, @[Len(@) - 3]),
                    primary_key |-> @[Len(@) - 2], not_null |-> @[Len(@) - 1], unique |-> @[Len(@)]])]
ReadColumn(f, s, junk) ==
    ColumnRead(ReadBool(f, ReadBool(f, ReadBool(f, ReadInt(f, ReadBytes(f, s), junk), junk), junk), junk))

\* The loop over col_count.
RECURSIVE ReadColumns(_, _, _, _)
ReadColumns(f, s, n, junk) ==
    IF n = 0 \/ s.fault # "" THEN s
    ELSE ReadColumns(f, PushBack(ReadColumn(f, s, junk)), n - 1, junk)
\* columns.reserve(col_count) for the count read last, then the loop.
ColumnsOf(f, s, junk) ==
    IF s.fault # "" THEN s
    ELSE IF Top(s) = Huge THEN Fail(s, "length_error")
    ELSE ReadColumns(f, Push(Pop(s), <<>>), Top(s), junk)

\* std::make_unique<Table>(table_name, columns) for the columns read last.
Construct(s) ==
    IF s.fault # "" THEN s
    ELSE IF TableCtorThrows(Top(s)) THEN Fail(s, "runtime_error")
    ELSE s

\* The table Table::deserialize returns, of the name, the columns and the rows
\* read last.
TableRead(s) ==
    IF s.fault # "" THEN s
    ELSE [s EXCEPT !.out =
            Append(SubSeq(@, 1, Len(@) - 3),
                   [name |-> NameOf(@[Len(@) - 2]), columns |-> @[Len(@) - 1], rows |-> @[Len(@)]])]

\* Table::deserialize
TableDeserialize(f, s, junk) ==
    TableRead(RowsOf(f, ReadSize(f, Construct(ColumnsOf(f, ReadSize(f, ReadBytes(f, s)), junk))), junk))

\* ------------------------------------------------------------------------
\* Database: saveToFile and loadFromFile
\* ------------------------------------------------------------------------
\* A Database without tables.
NoTables == [tables |-> {}, schema |-> [t \in DbNames |-> <<>>], rows |-> [t \in DbNames |-> <<>>]]

\* tables_[table->getName()] = std::move(table)
Register(db, table) ==
    [tables |-> db.tables \cup {table.name},
     schema |-> [db.schema EXCEPT ![table.name] = table.columns],
     rows |-> [db.rows EXCEPT ![table.name] = table.rows]]
\* The same, for the table read last and the Database before it.
Registered(s) ==
    IF s.fault # "" THEN s
    ELSE [s EXCEPT !.out = Append(SubSeq(@, 1, Len(@) - 2), Register(@[Len(@) - 1], @[Len(@)]))]

\* tables_.clear()
NotCleared(db) == db
Cleared(db) == NoTables

\* What Table::deserialize returns once the stream has failed.
EmptyTable == [name |-> "", columns |-> <<>>, rows |-> <<>>]

\* The loop over table_count in loadFromFile. With a count of 2^31 and more
\* the loop is still running after the stream has failed, registering one
\* empty table under the empty name again and again: the call does not
\* return.
RECURSIVE ReadTables(_, _, _, _)
ReadTables(f, s, n, junk) ==
    IF n = 0 \/ s.fault # "" THEN s
    ELSE IF n = Huge /\ ~s.good THEN Fail(Registered(Push(s, EmptyTable)), "no return")
    ELSE ReadTables(f, Registered(TableDeserialize(f, s, junk)), IF n = Huge THEN Huge ELSE n - 1, junk)
TablesOf(f, s, junk) == ReadTables(f, Pop(s), Top(s), junk)

\* How loadFromFile ends (return file.good(), or the exception), and the
\* tables it leaves registered.
EndedTrue(s) == [db |-> s.out[1], fault |-> s.fault, ret |-> s.fault = ""]
Ended(s) == [db |-> s.out[1], fault |-> s.fault, ret |-> s.fault = "" /\ s.good]

\* What loadFromFile makes of an opened file with the bytes f, after
\* tables_.clear().
LoadResult(f, junk, db) == Ended(TablesOf(f, ReadSize(f, Push(Opened, Cleared(db))), junk))

\* A call that never returns.
Hung == [ret |-> FALSE, rows |-> <<>>, hung |-> TRUE]
Outcome(r) ==
    CASE r.fault = "" -> Returned(r.ret, <<>>)
      [] r.fault = "no return" -> Hung
      [] OTHER -> Thrown(r.fault)

\* What reading a file can find in uninitialised memory.
Junk == {0, 1}

\* What no call of the persistence calls changes.
DiskFrame ==
    UNCHANGED <<active_, rollback_operations_, life, snap, clean, allTrue, shape, writes, threads, aside>>

\* Database::saveToFile on a path that can be written. The file holds the
\* tables in the order the unordered_map hands them out.
SaveToFile(order) ==
    /\ db_mutex_ = FALSE
    /\ file_' = FileImage(order, schema_, rows_)
    /\ last' = Returned(TRUE, <<>>)
    /\ db_mutex_' = FALSE
    /\ phase' = "saved"
    /\ UNCHANGED <<tables_, schema_, rows_, other_, held>>
    /\ DiskFrame

\* What the Database holds.
Holds == [tables |-> tables_, schema |-> schema_, rows |-> rows_]

\* std::ifstream::is_open() on a path with this content.
IsOpenAlways(f) == TRUE
IsOpen(f) == f # NoFile

\* Database::loadFromFile on a path with the content f: when the file cannot
\* be opened the call returns false before it takes the lock; otherwise it
\* clears tables_, reads the tables and returns file.good(), unless an
\* exception leaves it first. std::lock_guard gives the lock back either way.
Loaded(r) ==
    /\ tables_' = r.db.tables
    /\ schema_' = r.db.schema
    /\ rows_' = r.db.rows
    /\ last' = Outcome(r)
LoadBytes(f, junk) ==
    /\ db_mutex_ = FALSE
    /\ IF IsOpen(f)
       THEN Loaded(LoadResult(f, junk, Holds))
       ELSE /\ last' = Returned(FALSE, <<>>)
            /\ UNCHANGED <<tables_, schema_, rows_>>
    /\ db_mutex_' = FALSE
    /\ held' = Holds
    /\ UNCHANGED <<file_, other_>>
    /\ DiskFrame

\* Database::loadFromFile on the file saveToFile wrote.
LoadFromFile(junk) == file_ # NoFile /\ LoadBytes(file_, junk) /\ phase' = "file"

\* Database::loadFromFile on a path that cannot be opened.
LoadMissing == LoadBytes(NoFile, 0) /\ phase' = "missing"

\* Database::loadFromFile on a copy of the saved file cut after its first k
\* bytes.
LoadCut(k, junk) ==
    /\ file_ # NoFile
    /\ k < Len(file_)
    /\ LoadBytes(SubSeq(file_, 1, k), junk)
    /\ phase' = "cut"

\* "This is not a valid database file", the file database_test.cc loads.
NotADatabase ==
    <<84, 104, 105, 115, 32, 105, 115, 32, 110, 111, 116, 32, 97, 32, 118, 97, 108, 105, 100, 32,
      100, 97, 116, 97, 98, 97, 115, 101, 32, 102, 105, 108, 101>>

\* Files of whole eight-byte words that are 1 or all ones.
MaxGarbageWords == 2
GarbageWords == {LittleEndian(1, SizeBytes), [i \in 1..SizeBytes |-> 255]}
GarbageFiles ==
    {NotADatabase} \cup
    UNION {{Flatten(words) : words \in [1..n -> GarbageWords]} : n \in 1..MaxGarbageWords}

\* Database::loadFromFile on a file saveToFile did not write.
LoadGarbage(f, junk) == LoadBytes(f, junk) /\ phase' = "garbage"

\* A second Database is constructed and loads the saved file.
LoadedAfresh(r) ==
    /\ other_' = [made |-> TRUE, ret |-> r.ret, tables |-> r.db]
    /\ last' = Outcome(r)
LoadFresh(junk) ==
    /\ file_ # NoFile
    /\ LoadedAfresh(LoadResult(file_, junk, NoTables))
    /\ phase' = "fresh"
    /\ UNCHANGED <<tables_, schema_, rows_, file_, db_mutex_, held>>
    /\ DiskFrame

\* A Database after construction: no table.
DbInit ==
    /\ tables_ = {}
    /\ schema_ = [t \in DbNames |-> <<>>]
    /\ rows_ = [t \in DbNames |-> <<>>]
    /\ file_ = NoFile
    /\ other_ = NoDatabase
    /\ db_mutex_ = FALSE
    /\ held = NoDatabase
    /\ phase = "build"
    /\ AsideInit
    /\ active_ = [x \in Txs |-> FALSE]
    /\ rollback_operations_ = [x \in Txs |-> EmptyLog]
    /\ life = [x \in Txs |-> "none"]
    /\ snap = [x \in Txs |-> NoSnap]
    /\ clean = [x \in Txs |-> FALSE]
    /\ allTrue = [x \in Txs |-> FALSE]
    /\ shape = [x \in Txs |-> FALSE]
    /\ writes = [x \in Txs |-> {}]
    /\ last = Returned(TRUE, <<>>)
    /\ mutex_ = [t \in TableNames |-> Unlocked]
    /\ pc = [th \in Threads |-> "idle"]
    /\ arg = [th \in Threads |-> NoArg]
    /\ started = 0
    /\ initial = 0
    /\ acked = [row \in RowInputs |-> 0]
    /\ seen = [th \in Threads |-> NotSeen]

\* The rows the callers of the Database insert.
DbRowInputs ==
    {<<IntValue(1)>>, <<IntValue(2)>>, <<IntValue(1), IntValue(2)>>, <<IntValue(2), IntValue(1)>>}

\* The callers of the registry, who also fill the tables they created.
RegistryCall ==
    \/ \E name \in CallNames : \E columns \in ColumnLists(name) : Building /\ CreateTable(name, columns)
    \/ \E name \in CallNames : Building /\ DropTable(name)
    \/ \E name \in CallNames : phase = "build" /\ GetTable(name)
    \/ \E t \in tables_, row \in DbRowInputs :
          phase = "build" /\ DbRowCount < MaxDbRows /\ TableInsert(t, row)

\* The callers of the persistence calls: they fill a Database, save it once,
\* may go on creating and dropping tables, and load a file once; a cut copy
\* of the file is loaded by the Database that holds what the file holds.
DiskCall ==
    \/ \E order \in Orders(tables_) : phase = "build" /\ SaveToFile(order)
    \/ \E junk \in Junk : phase \in {"saved", "changed"} /\ LoadFromFile(junk)
    \/ \E junk \in Junk : phase = "saved" /\ LoadFresh(junk)
    \/ Building /\ LoadMissing
    \/ \E k \in 0..(Len(file_) - 1), junk \in Junk : phase = "saved" /\ LoadCut(k, junk)
    \/ \E f \in GarbageFiles, junk \in Junk : phase = "build" /\ LoadGarbage(f, junk)

NextDb == RegistryCall \/ DiskCall

SpecDb == DbInit /\ [][NextDb]_vars

\* ------------------------------------------------------------------------
\* Callers whose rows hold nulls and values of another type than the column's
\* ------------------------------------------------------------------------
\* The values these callers put into rows: an integer, a null, a text.
TypedValues == {IntValue(1), NullValue, TextValue(<<97>>)}

\* Their rows: as many values as the table has columns.
TypedRows(t) == [1..Len(columns_(t)) -> TypedValues]

\* They insert while the table holds fewer rows than this.
MaxTypedRows == 1

NextTyped ==
    \/ \E x \in CallerTxs : Begin(x)
    \/ \E t \in tables_ : \E row \in TypedRows(t) :
          Len(rows_[t]) < MaxTypedRows /\ TableInsert(t, row)
    \/ \E t \in tables_, p \in Predicates : \E row \in TypedRows(t) : TableUpdate(t, row, p)
    \/ \E x \in CallerTxs, t \in tables_ : \E row \in TypedRows(t) :
          Len(rows_[t]) < MaxTypedRows /\ TxInsert(x, t, row)
    \/ \E x \in CallerTxs, t \in tables_, p \in Predicates : \E row \in TypedRows(t) :
          TxUpdate(x, t, row, p)

SpecTyped == Init /\ [][NextTyped]_vars

\* ------------------------------------------------------------------------
\* A transaction that works on two tables, and the order its rollback runs in
\* ------------------------------------------------------------------------
\* The transaction is given a mutating call only when its undo log holds at
\* most this many compensating actions afterwards.
MaxUndoOps == 2

\* The tables of transaction x after a call on table t that recorded undos:
\* a table joins the list at its first recorded compensating action.
UsedAfter(x, t, undos) ==
    IF undos = <<>> \/ \E i \in 1..Len(used[x]) : used[x][i] = t
    THEN used[x]
    ELSE Append(used[x], t)

\* A mutating Transaction call with the result w = <<return value, rows of
\* every table, compensating actions recorded>>.
LoggedCall(x, t, w) ==
    /\ life[x] = "active"
    /\ LogSize(rollback_operations_[x]) + Len(w[3]) <= MaxUndoOps
    /\ rows_' = w[2]
    /\ rollback_operations_' =
          IF w[3] = <<>> THEN rollback_operations_
          ELSE [rollback_operations_ EXCEPT ![x][t] = @ \o w[3]]
    /\ used' = [used EXCEPT ![x] = UsedAfter(x, t, w[3])]
    /\ last' = Returned(w[1], <<>>)
    /\ Forget
    /\ UNCHANGED <<tables_, active_, life, threads, store, probe, undone, handles>>

\* The compensating actions of one table in the order the inner loop of
\* Transaction::rollback runs them (rbegin to rend), as <<table, index>>.
TableOrder(t, ops) == [j \in 1..Len(ops) |-> <<t, Len(ops) + 1 - j>>]

RECURSIVE OrderFrom(_, _)
\* The outer loop of Transaction::rollback: the keys of the std::map from
\* last to first.
OrderFrom(log, i) ==
    IF i = 0 THEN <<>>
    ELSE TableOrder(MapOrder[i], log[MapOrder[i]]) \o OrderFrom(log, i - 1)

\* Transaction::rollback, with the order its compensating actions ran in.
RollbackObserved(x) ==
    /\ life[x] = "active"
    /\ LET r == RollbackResult(rows_, active_[x], rollback_operations_[x]) IN
       /\ rows_' = r[1]
       /\ active_' = [active_ EXCEPT ![x] = r[2]]
       /\ rollback_operations_' = [rollback_operations_ EXCEPT ![x] = r[3]]
    /\ undone' = OrderFrom(rollback_operations_[x], Len(MapOrder))
    /\ used' = [used EXCEPT ![x] = <<>>]
    /\ life' = [life EXCEPT ![x] = "rolledback"]
    /\ last' = Returned(TRUE, <<>>)
    /\ Forget
    /\ UNCHANGED <<tables_, threads, store, probe, handles>>

\* Two tables are registered.
UndoInit ==
    /\ tables_ = {"N", "P"}
    /\ Fresh

NextUndo ==
    \/ \E x \in CallerTxs : Begin(x)
    \/ \E x \in CallerTxs, t \in tables_, row \in RowInputs :
          HasRoom(t) /\ LoggedCall(x, t, TxInsertResult(x, t, row))
    \/ \E x \in CallerTxs, t \in tables_, p \in Predicates :
          LoggedCall(x, t, TxRemoveResult(x, t, p))
    \/ \E x \in CallerTxs : RollbackObserved(x)
    \/ \E x \in CallerTxs : life[x] = "rolledback" /\ Destroy(x)

SpecUndo == UndoInit /\ [][NextUndo]_vars

\* ------------------------------------------------------------------------
\* Two transactions at work on one table with a primary key
\* ------------------------------------------------------------------------
\* The two transactions.
Pair == {1, 2}

\* The table starts empty.
PairInit == tables_ = {"P"} /\ Fresh

\* The transactions only insert and remove; their calls, commits and rollbacks
\* come in any order, each call as a whole.
NextPair ==
    \/ \E x \in Pair : Begin(x)
    \/ \E x \in Pair, row \in RowInputs : HasRoom("P") /\ TxInsert(x, "P", row)
    \/ \E x \in Pair, p \in Predicates : TxRemove(x, "P", p)
    \/ \E x \in Pair : Commit(x)
    \/ \E x \in Pair : Rollback(x)
    \/ \E x \in Pair : Destroy(x)

SpecPair == PairInit /\ [][NextPair]_vars

\* ------------------------------------------------------------------------
\* Every call that takes a table's lock, one step per lock operation
\* ------------------------------------------------------------------------
\* std::shared_mutex: what lock_shared / unlock_shared / lock / unlock (and
\* the try_ forms that succeed) make of the mutex m for thread th.
AcquireShared(m, th) == [m EXCEPT !.readers = @ \cup {th}]

\* An unlock_shared that leaves the mutex as it is.
KeepShared(m, th) == m

ReleaseShared(m, th) == [m EXCEPT !.readers = @ \ {th}]

AcquireExclusive(m, th) == [m EXCEPT !.writer = th]

ReleaseExclusive(m, th) == [m EXCEPT !.writer = 0]

\* What a thread keeps while it is inside a call: the table, the operation
\* and its arguments, the rows a read phase copied, the compensating actions
\* a rollback has still to run.
Call(t, kind, row, p) ==
    [table |-> t, kind |-> kind, row |-> row, pred |-> p, rows |-> <<>>, todo |-> <<>>]

\* The rows and the predicates the threads pass: the rows of either size with
\* 1 for the first value and 2 for the others, and the predicates that look
\* at no value or at the first.
LockRows ==
    {row \in RowInputs : row[1] = IntValue(1) /\ \A i \in 2..Len(row) : row[i] = IntValue(2)}

LockPredicates == {p \in Predicates : p.kind # "last"}

\* The mutating operations and their arguments.
WriteOps ==
    {[kind |-> "insert", row |-> row, pred |-> AnyPred] : row \in LockRows}
    \cup {[kind |-> "update", row |-> row, pred |-> p] : row \in LockRows, p \in LockPredicates}
    \cup {[kind |-> "remove", row |-> <<>>, pred |-> p] : p \in LockPredicates}

\* What a call that gave up waiting for a lock returns.
GaveUp(ret) == [ret |-> ret, rows |-> <<>>, gave_up |-> TRUE]

\* What no step of these calls changes.
LockFrame ==
    UNCHANGED <<tables_, snap, clean, allTrue, shape, writes, initial, acked, seen, store, aside>>

\* A call is entered and proceeds to the step `at`.
Enter(th, c, at) ==
    /\ pc[th] = "idle"
    /\ started < MaxStarted
    /\ started' = started + 1
    /\ pc' = [pc EXCEPT ![th] = at]
    /\ arg' = [arg EXCEPT ![th] = c]

\* A call is entered and returns at once.
EnterAndLeave(th, outcome) ==
    /\ pc[th] = "idle"
    /\ started < MaxStarted
    /\ started' = started + 1
    /\ last' = outcome
    /\ UNCHANGED <<pc, arg>>

\* A call returns.
Leave(th, outcome) ==
    /\ Return(th)
    /\ last' = outcome
    /\ UNCHANGED started

\* Table::select: the shared_lock's constructor has returned.
SelectLocked(th, t, p) ==
    /\ CanLockShared(mutex_[t])
    /\ Enter(th, Call(t, "select", <<>>, p), "select_scan")
    /\ mutex_' = [mutex_ EXCEPT ![t] = AcquireShared(@, th)]
    /\ UNCHANGED <<rows_, active_, rollback_operations_, life, last>>
    /\ LockFrame

\* Table::select: the scan of rows_, the return, the lock's destructor.
SelectScan(th) ==
    /\ pc[th] = "select_scan"
    /\ Leave(th, Returned(TRUE, SelectRows(rows_[arg[th].table], arg[th].pred)))
    /\ mutex_' = [mutex_ EXCEPT ![arg[th].table] = ReleaseShared(@, th)]
    /\ UNCHANGED <<rows_, active_, rollback_operations_, life>>
    /\ LockFrame

\* Transaction::select on an active transaction and a registered table: a
\* shared try_to_lock owns the lock.
TxSelectLocked(th, t, p) ==
    /\ active_[th] /\ getTable(t)
    /\ CanLockShared(mutex_[t])
    /\ Enter(th, Call(t, "select", <<>>, p), "tx_select_scan")
    /\ mutex_' = [mutex_ EXCEPT ![t] = AcquireShared(@, th)]
    /\ UNCHANGED <<rows_, active_, rollback_operations_, life, last>>
    /\ LockFrame

\* Transaction::select: every try failed until the 500 ms ran out; the call
\* returns an empty vector.
TxSelectGivesUp(th, t, p) ==
    /\ active_[th] /\ getTable(t)
    /\ ~CanLockShared(mutex_[t])
    /\ EnterAndLeave(th, GaveUp(TRUE))
    /\ UNCHANGED <<rows_, active_, rollback_operations_, life, mutex_>>
    /\ LockFrame

\* Transaction::select: the scan of rows_, the return, the lock's destructor.
TxSelectScan(th) ==
    /\ pc[th] = "tx_select_scan"
    /\ Leave(th, Returned(TRUE, SelectRows(rows_[arg[th].table], arg[th].pred)))
    /\ mutex_' = [mutex_ EXCEPT ![arg[th].table] = ReleaseShared(@, th)]
    /\ UNCHANGED <<rows_, active_, rollback_operations_, life>>
    /\ LockFrame

\* Table::insert / update / remove: a row of the wrong size returns false at
\* once; otherwise the unique_lock's constructor has returned.
TableWriteLocked(th, t, op) ==
    /\ IF op.kind # "remove" /\ Len(op.row) # Len(columns_(t))
       THEN /\ EnterAndLeave(th, Returned(FALSE, <<>>))
            /\ UNCHANGED mutex_
       ELSE /\ CanLockExclusive(mutex_[t])
            /\ Enter(th, Call(t, op.kind, op.row, op.pred), "table_write")
            /\ mutex_' = [mutex_ EXCEPT ![t] = AcquireExclusive(@, th)]
            /\ UNCHANGED last
    /\ UNCHANGED <<rows_, active_, rollback_operations_, life>>
    /\ LockFrame

\* What Table::insert / update / remove make of the rows under the lock.
TableWriteResult(c, cols, rows) ==
    CASE c.kind = "insert" -> TableInsertResult(cols, rows, c.row)
      [] c.kind = "update" -> TableUpdateResult(cols, rows, c.row, c.pred)
      [] c.kind = "remove" -> TableRemoveResult(rows, c.pred)

\* Table::insert / update / remove: the work on rows_, the return, the lock's
\* destructor.
TableWriteRun(th) ==
    /\ pc[th] = "table_write"
    /\ rows_' = [rows_ EXCEPT ![arg[th].table] =
                    TableWriteResult(arg[th], columns_(arg[th].table), @)[2]]
    /\ Leave(th, Returned(TableWriteResult(arg[th], columns_(arg[th].table),
                                           rows_[arg[th].table])[1], <<>>))
    /\ mutex_' = [mutex_ EXCEPT ![arg[th].table] = ReleaseExclusive(@, th)]
    /\ UNCHANGED <<active_, rollback_operations_, life>>
    /\ LockFrame

\* Transaction::insert / update / remove is entered: the early returns, then
\* the read phase (update, remove) or the write phase (insert).
TxWriteCall(th, t, op) ==
    /\ IF active_[th] /\ getTable(t) /\ (op.kind = "remove" \/ Len(op.row) = Len(columns_(t)))
       THEN /\ Enter(th, Call(t, op.kind, op.row, op.pred),
                     IF op.kind = "insert" THEN "tx_write_try" ELSE "tx_read_try")
            /\ UNCHANGED last
       ELSE EnterAndLeave(th, Returned(FALSE, <<>>))
    /\ UNCHANGED <<rows_, active_, rollback_operations_, life, mutex_>>
    /\ LockFrame

\* Read phase: a shared try_to_lock owns the lock.
TxReadLocked(th) ==
    /\ pc[th] = "tx_read_try"
    /\ CanLockShared(mutex_[arg[th].table])
    /\ mutex_' = [mutex_ EXCEPT ![arg[th].table] = AcquireShared(@, th)]
    /\ pc' = [pc EXCEPT ![th] = "tx_snapshot"]
    /\ UNCHANGED <<rows_, active_, rollback_operations_, life, last, arg, started>>
    /\ LockFrame

\* Read phase: every try failed until the 500 ms ran out; return false.
TxReadGivesUp(th) ==
    /\ pc[th] = "tx_read_try"
    /\ ~CanLockShared(mutex_[arg[th].table])
    /\ Leave(th, GaveUp(FALSE))
    /\ UNCHANGED <<rows_, active_, rollback_operations_, life, mutex_>>
    /\ LockFrame

\* Read phase: the rows the predicate holds for are copied (original_rows /
\* deleted_rows), and the shared lock's destructor runs.
TxSnapshot(th) ==
    /\ pc[th] = "tx_snapshot"
    /\ arg' = [arg EXCEPT ![th].rows = SelectRows(rows_[arg[th].table], arg[th].pred)]
    /\ mutex_' = [mutex_ EXCEPT ![arg[th].table] = ReleaseShared(@, th)]
    /\ pc' = [pc EXCEPT ![th] = "tx_write_try"]
    /\ UNCHANGED <<rows_, active_, rollback_operations_, life, last, started>>
    /\ LockFrame

\* Write phase: a try_to_lock owns the lock.
TxWriteLocked(th) ==
    /\ pc[th] = "tx_write_try"
    /\ CanLockExclusive(mutex_[arg[th].table])
    /\ mutex_' = [mutex_ EXCEPT ![arg[th].table] = AcquireExclusive(@, th)]
    /\ pc' = [pc EXCEPT ![th] = "tx_write"]
    /\ UNCHANGED <<rows_, active_, rollback_operations_, life, last, arg, started>>
    /\ LockFrame

\* Write phase: every try failed until the 500 ms ran out; the call returns
\* write_success && result = false.
TxWriteGivesUp(th) ==
    /\ pc[th] = "tx_write_try"
    /\ ~CanLockExclusive(mutex_[arg[th].table])
    /\ Leave(th, GaveUp(FALSE))
    /\ UNCHANGED <<rows_, active_, rollback_operations_, life, mutex_>>
    /\ LockFrame

\* What the write phase makes of the rows under the lock.
TxWriteResult(c, cols, rows) ==
    CASE c.kind = "insert" -> TxInsertWrite(cols, rows, c.row)
      [] c.kind = "update" -> TxUpdateWrite(rows, c.row, c.pred, c.rows)
      [] c.kind = "remove" -> TxRemoveWrite(rows, c.pred, c.rows)

\* Write phase: the work on rows_, the push_back of the compensating actions,
\* the lock's destructor, the return.
TxWriteRun(th) ==
    /\ pc[th] = "tx_write"
    /\ rows_' = [rows_ EXCEPT ![arg[th].table] =
                    TxWriteResult(arg[th], columns_(arg[th].table), @)[2]]
    /\ rollback_operations_' =
          [rollback_operations_ EXCEPT ![th][arg[th].table] =
              @ \o TxWriteResult(arg[th], columns_(arg[th].table), rows_[arg[th].table])[3]]
    /\ Leave(th, Returned(TxWriteResult(arg[th], columns_(arg[th].table),
                                        rows_[arg[th].table])[1], <<>>))
    /\ mutex_' = [mutex_ EXCEPT ![arg[th].table] = ReleaseExclusive(@, th)]
    /\ UNCHANGED <<active_, life>>
    /\ LockFrame

\* Table::beginRead: a try_lock_shared succeeded before the time ran out; the
\* caller owns the shared lock until it calls endRead.
BeginRead(th, t) ==
    /\ CanLockShared(mutex_[t])
    /\ Enter(th, Call(t, "beginRead", <<>>, AnyPred), "holds_shared")
    /\ mutex_' = [mutex_ EXCEPT ![t] = AcquireShared(@, th)]
    /\ last' = Returned(TRUE, <<>>)
    /\ UNCHANGED <<rows_, active_, rollback_operations_, life>>
    /\ LockFrame

\* Table::beginRead: the time ran out; return false.
BeginReadGivesUp(th, t) ==
    /\ ~CanLockShared(mutex_[t])
    /\ EnterAndLeave(th, GaveUp(FALSE))
    /\ UNCHANGED <<rows_, active_, rollback_operations_, life, mutex_>>
    /\ LockFrame

\* Table::endRead
EndRead(th) ==
    /\ pc[th] = "holds_shared"
    /\ mutex_' = [mutex_ EXCEPT ![arg[th].table] = ReleaseShared(@, th)]
    /\ Leave(th, Returned(TRUE, <<>>))
    /\ UNCHANGED <<rows_, active_, rollback_operations_, life>>
    /\ LockFrame

\* Table::beginWrite: a try_lock succeeded before the time ran out.
BeginWrite(th, t) ==
    /\ CanLockExclusive(mutex_[t])
    /\ Enter(th, Call(t, "beginWrite", <<>>, AnyPred), "holds_exclusive")
    /\ mutex_' = [mutex_ EXCEPT ![t] = AcquireExclusive(@, th)]
    /\ last' = Returned(TRUE, <<>>)
    /\ UNCHANGED <<rows_, active_, rollback_operations_, life>>
    /\ LockFrame

\* Table::beginWrite: the time ran out; return false.
BeginWriteGivesUp(th, t) ==
    /\ ~CanLockExclusive(mutex_[t])
    /\ EnterAndLeave(th, GaveUp(FALSE))
    /\ UNCHANGED <<rows_, active_, rollback_operations_, life, mutex_>>
    /\ LockFrame

\* Table::endWrite
EndWrite(th) ==
    /\ pc[th] = "holds_exclusive"
    /\ mutex_' = [mutex_ EXCEPT ![arg[th].table] = ReleaseExclusive(@, th)]
    /\ Leave(th, Returned(TRUE, <<>>))
    /\ UNCHANGED <<rows_, active_, rollback_operations_, life>>
    /\ LockFrame

\* Transaction::rollback on an active transaction: active_ = false, then the
\* loops over the compensating actions (none: clear() and return).
RollbackCall(th) ==
    /\ active_[th]
    /\ active_' = [active_ EXCEPT ![th] = FALSE]
    /\ life' = [life EXCEPT ![th] = "rolledback"]
    /\ IF LogSize(rollback_operations_[th]) = 0
       THEN EnterAndLeave(th, Returned(TRUE, <<>>))
       ELSE /\ Enter(th, [Call(MissingTable, "rollback", <<>>, AnyPred) EXCEPT
                             !.todo = OrderFrom(rollback_operations_[th], Len(MapOrder))],
                     "undo_lock")
            /\ UNCHANGED last
    /\ UNCHANGED <<rows_, rollback_operations_, mutex_>>
    /\ LockFrame

\* A compensating action: its unique_lock's constructor has returned.
UndoLocked(th) ==
    /\ pc[th] = "undo_lock"
    /\ CanLockExclusive(mutex_[arg[th].todo[1][1]])
    /\ mutex_' = [mutex_ EXCEPT ![arg[th].todo[1][1]] = AcquireExclusive(@, th)]
    /\ arg' = [arg EXCEPT ![th].table = arg[th].todo[1][1]]
    /\ pc' = [pc EXCEPT ![th] = "undo_run"]
    /\ UNCHANGED <<rows_, active_, rollback_operations_, life, last, started>>
    /\ LockFrame

\* A compensating action: its work on rows_ and its lock's destructor; after
\* the last one rollback_operations_.clear() and the return.
UndoRun(th) ==
    /\ pc[th] = "undo_run"
    /\ rows_' = [rows_ EXCEPT ![arg[th].table] =
                    RunUndo(columns_(arg[th].table), @,
                            rollback_operations_[th][arg[th].table][arg[th].todo[1][2]])]
    /\ mutex_' = [mutex_ EXCEPT ![arg[th].table] = ReleaseExclusive(@, th)]
    /\ IF Len(arg[th].todo) = 1
       THEN /\ rollback_operations_' = [rollback_operations_ EXCEPT ![th] = EmptyLog]
            /\ Leave(th, Returned(TRUE, <<>>))
       ELSE /\ arg' = [arg EXCEPT ![th].todo = Tail(@)]
            /\ pc' = [pc EXCEPT ![th] = "undo_lock"]
            /\ UNCHANGED <<rollback_operations_, last, started>>
    /\ UNCHANGED <<active_, life>>
    /\ LockFrame

\* Table::serialize: the shared_lock's constructor has returned.
SerializeLocked(th, t) ==
    /\ CanLockShared(mutex_[t])
    /\ Enter(th, Call(t, "serialize", <<>>, AnyPred), "serialize_copy")
    /\ mutex_' = [mutex_ EXCEPT ![t] = AcquireShared(@, th)]
    /\ UNCHANGED <<rows_, active_, rollback_operations_, life, last>>
    /\ LockFrame

\* Table::serialize: rows_copy = rows_ and the lock's destructor; the copy is
\* what the call writes.
SerializeCopy(th) ==
    /\ pc[th] = "serialize_copy"
    /\ Leave(th, Returned(TRUE, rows_[arg[th].table]))
    /\ mutex_' = [mutex_ EXCEPT ![arg[th].table] = ReleaseShared(@, th)]
    /\ UNCHANGED <<rows_, active_, rollback_operations_, life>>
    /\ LockFrame

\* The state these threads start in: one table that holds no row, or one row
\* (any first value, 1 for the others) that Table::insert put there, or that
\* the first thread's transaction put there; every thread's transaction is
\* active.
LocksInit ==
    /\ tables_ \in Schemas
    /\ schema_ = [t \in TableNames |-> FixtureColumns(t)]
    /\ file_ = NoFile
    /\ other_ = NoDatabase
    /\ db_mutex_ = FALSE
    /\ held = NoDatabase
    /\ phase = "build"
    /\ AsideInit
    /\ \E t \in tables_ :
          \E r \in {<<>>} \cup {<<row>> : row \in {w \in [1..Len(columns_(t)) -> Values] :
                                                    \A i \in 2..Len(w) : w[i] = IntValue(1)}} :
             /\ rows_ = [u \in TableNames |-> IF u = t THEN r ELSE <<>>]
             /\ initial = Len(r)
             /\ \E mine \in {k \in BOOLEAN : k => r # <<>>} :
                   rollback_operations_ =
                       [x \in Txs |->
                           IF x = 1 /\ mine
                           THEN [EmptyLog EXCEPT ![t] = <<InsertUndo(r[1])>>]
                           ELSE EmptyLog]
    /\ active_ = [x \in Txs |-> TRUE]
    /\ life = [x \in Txs |-> "active"]
    /\ snap = [x \in Txs |-> NoSnap]
    /\ clean = [x \in Txs |-> FALSE]
    /\ allTrue = [x \in Txs |-> FALSE]
    /\ shape = [x \in Txs |-> FALSE]
    /\ writes = [x \in Txs |-> {}]
    /\ last = Returned(TRUE, <<>>)
    /\ mutex_ = [t \in TableNames |-> Unlocked]
    /\ pc = [th \in Threads |-> "idle"]
    /\ arg = [th \in Threads |-> NoArg]
    /\ started = 0
    /\ acked = [row \in RowInputs |-> 0]
    /\ seen = [th \in Threads |-> NotSeen]

\* The steps of one thread inside a call that waits for a lock with a timeout.
TimedStep(th) ==
    \/ TxReadLocked(th)
    \/ TxReadGivesUp(th)
    \/ TxWriteLocked(th)
    \/ TxWriteGivesUp(th)

NextLocks ==
    \/ \E th \in Writers, t \in tables_, p \in LockPredicates : SelectLocked(th, t, p)
    \/ \E th \in Writers : SelectScan(th)
    \/ \E th \in Writers, t \in tables_, p \in LockPredicates : TxSelectLocked(th, t, p)
    \/ \E th \in Writers, t \in tables_, p \in LockPredicates : TxSelectGivesUp(th, t, p)
    \/ \E th \in Writers : TxSelectScan(th)
    \/ \E th \in Writers, t \in tables_, op \in WriteOps : TableWriteLocked(th, t, op)
    \/ \E th \in Writers : TableWriteRun(th)
    \/ \E th \in Writers, t \in tables_, op \in WriteOps : TxWriteCall(th, t, op)
    \/ \E th \in Writers : TimedStep(th)
    \/ \E th \in Writers : TxSnapshot(th)
    \/ \E th \in Writers : TxWriteRun(th)
    \/ \E th \in Writers, t \in tables_ : BeginRead(th, t)
    \/ \E th \in Writers, t \in tables_ : BeginReadGivesUp(th, t)
    \/ \E th \in Writers : EndRead(th)
    \/ \E th \in Writers, t \in tables_ : BeginWrite(th, t)
    \/ \E th \in Writers, t \in tables_ : BeginWriteGivesUp(th, t)
    \/ \E th \in Writers : EndWrite(th)
    \/ \E th \in Writers : RollbackCall(th)
    \/ \E th \in Writers : UndoLocked(th)
    \/ \E th \in Writers : UndoRun(th)
    \/ \E th \in Writers, t \in tables_ : SerializeLocked(th, t)
    \/ \E th \in Writers : SerializeCopy(th)

SpecLocks == LocksInit /\ [][NextLocks]_vars

\* The same threads, each of them scheduled again and again: a thread inside
\* a try-lock loop goes on to its next try or to the end of its 500 ms.
SpecLocksFair == SpecLocks /\ \A th \in Writers : WF_vars(TimedStep(th))

\* ------------------------------------------------------------------------
\* Value: the comparison operators
\* ------------------------------------------------------------------------
RECURSIVE FirstDiff(_, _, _, _)
\* The first index from i to n at which s and t differ, or 0 (memcmp).
FirstDiff(s, t, i, n) ==
    IF i > n THEN 0
    ELSE IF s[i] # t[i] THEN i
    ELSE FirstDiff(s, t, i + 1, n)

\* std::string::compare: the common prefix is compared byte by byte as
\* unsigned char, then the lengths decide. Negative, 0 or positive.
StringCompare(s, t) ==
    LET n == IF Len(s) < Len(t) THEN Len(s) ELSE Len(t)
        d == FirstDiff(s, t, 1, n)
    IN IF d # 0 THEN (IF s[d] < t[d] THEN -1 ELSE 1)
       ELSE Len(s) - Len(t)

RECURSIVE LexLess(_, _, _)
\* std::lexicographical_compare from index i on (operator< of std::vector).
LexLess(s, t, i) ==
    IF i > Len(s) \/ i > Len(t) THEN i > Len(s) /\ i <= Len(t)
    ELSE IF s[i] < t[i] THEN TRUE
    ELSE IF t[i] < s[i] THEN FALSE
    ELSE LexLess(s, t, i + 1)

\* ValueLess that compares values of one type only.
ValueLessWithinType(a, b) ==
    IF a.type # b.type
    THEN FALSE
    ELSE CASE a.type = "INT" -> a.int_val < b.int_val
           [] a.type = "TEXT" -> StringCompare(a.bytes, b.bytes) < 0
           [] a.type = "BLOB" -> LexLess(a.bytes, b.bytes, 1)
           [] OTHER -> FALSE

\* Value::operator<
ValueLess(a, b) ==
    IF a.type # b.type
    THEN EnumCode(ValueTypes, a.type) < EnumCode(ValueTypes, b.type)
    ELSE CASE a.type = "INT" -> a.int_val < b.int_val
           [] a.type = "TEXT" -> StringCompare(a.bytes, b.bytes) < 0
           [] a.type = "BLOB" -> LexLess(a.bytes, b.bytes, 1)
           [] a.type = "NULL_TYPE" -> FALSE
           [] OTHER -> FALSE

\* The Values callers compare: null, integers, texts and blobs, among them
\* negative numbers, empty payloads, prefixes and bytes above 127.
CmpValues ==
    { NullValue, IntValue(-1), IntValue(0), IntValue(2),
      TextValue(<<>>), TextValue(<<97>>), TextValue(<<97, 98>>), TextValue(<<200>>),
      BlobValue(<<>>), BlobValue(<<0>>), BlobValue(<<0, 1>>), BlobValue(<<200>>) }

\* A caller constructs three Values.
HoldValues(a, b, c) ==
    /\ probe = NoProbe
    /\ probe' = [done |-> FALSE, v |-> <<a, b, c>>]
    /\ UNCHANGED <<tables_, rows_, active_, rollback_operations_, life, snap, clean, allTrue,
                   shape, writes, last, threads, store, used, undone, handles>>

\* ... and applies operator== and operator< to every pair of them.
CompareValues ==
    /\ probe # NoProbe
    /\ ~probe.done
    /\ probe' = [done |-> TRUE,
                 v |-> probe.v,
                 eq |-> [i \in 1..3 |-> [j \in 1..3 |-> ValueEq(probe.v[i], probe.v[j])]],
                 lt |-> [i \in 1..3 |-> [j \in 1..3 |-> ValueLess(probe.v[i], probe.v[j])]]]
    /\ UNCHANGED <<tables_, rows_, active_, rollback_operations_, life, snap, clean, allTrue,
                   shape, writes, last, threads, store, used, undone, handles>>

NextValue ==
    \/ \E a \in CmpValues, b \in CmpValues, c \in CmpValues : HoldValues(a, b, c)
    \/ CompareValues

SpecValue == DbInit /\ [][NextValue]_vars

\* ------------------------------------------------------------------------
\* A thread that keeps a table's lock
\* ------------------------------------------------------------------------
\* The steps of one thread inside a call of Table or Transaction.
InCallStep(th) ==
    \/ TimedStep(th)
    \/ SelectScan(th)
    \/ TxSelectScan(th)
    \/ TableWriteRun(th)
    \/ TxSnapshot(th)
    \/ TxWriteRun(th)
    \/ UndoLocked(th)
    \/ UndoRun(th)
    \/ SerializeCopy(th)

\* The threads as before, each of them scheduled again and again while it is
\* inside a call; a thread that has called beginRead or beginWrite calls
\* endRead or endWrite when it chooses to, or never.
SpecStalled == SpecLocks /\ \A th \in Writers : WF_vars(InCallStep(th))

\* A thread that owns a table's exclusive lock through beginWrite calls
\* Table::insert on that table: a row of the wrong size returns false at once;
\* otherwise the call reaches the constructor of its unique_lock.
HeldInsertCall(th, row) ==
    /\ pc[th] = "holds_exclusive"
    /\ started < MaxStarted
    /\ started' = started + 1
    /\ IF Len(row) # Len(columns_(arg[th].table))
       THEN /\ last' = Returned(FALSE, <<>>)
            /\ UNCHANGED <<pc, arg>>
       ELSE /\ pc' = [pc EXCEPT ![th] = "held_insert_lock"]
            /\ arg' = [arg EXCEPT ![th].row = row]
            /\ UNCHANGED last
    /\ UNCHANGED <<rows_, active_, rollback_operations_, life, mutex_>>
    /\ LockFrame

\* std::shared_mutex::lock() by the thread that owns the mutex is undefined.
\* One outcome: the thread waits for itself, for ever.
HeldInsertBlocks(th) ==
    /\ pc[th] = "held_insert_lock"
    /\ pc' = [pc EXCEPT ![th] = "blocked"]
    /\ UNCHANGED <<rows_, active_, rollback_operations_, life, mutex_, last, arg, started>>
    /\ LockFrame

\* The other outcome: lock() throws std::system_error
\* (resource_deadlock_would_occur) and Table::insert leaves by the exception;
\* the thread still owns the lock it took with beginWrite.
HeldInsertThrows(th) ==
    /\ pc[th] = "held_insert_lock"
    /\ pc' = [pc EXCEPT ![th] = "holds_exclusive"]
    /\ last' = Thrown("system_error")
    /\ UNCHANGED <<rows_, active_, rollback_operations_, life, mutex_, arg, started>>
    /\ LockFrame

\* The threads as before, and threads that call Table::insert between
\* beginWrite and endWrite.
NextHeld ==
    \/ NextLocks
    \/ \E th \in Writers, row \in LockRows : HeldInsertCall(th, row)
    \/ \E th \in Writers : HeldInsertBlocks(th)
    \/ \E th \in Writers : HeldInsertThrows(th)

SpecHeld ==
    /\ LocksInit
    /\ [][NextHeld]_vars
    /\ \A th \in Writers : WF_vars(InCallStep(th) \/ HeldInsertBlocks(th) \/ HeldInsertThrows(th))

\* ------------------------------------------------------------------------
\* Threads that share the Database: its map, its lock, the tables' locks
\* ------------------------------------------------------------------------
\* What a thread keeps while it is inside a call on the Database or on a
\* transaction: next to the fields of Call, `lock` (the std::lock_guard on
\* Database::mutex_ in its frame is alive), `born` (with `table`, the object
\* its Table* points to), and for saveToFile `names` (table_names from the
\* current one on), `count` (table_count) and `records` (what
\* Table::serialize wrote).
Job(t, kind, row) ==
    [table |-> t, kind |-> kind, row |-> row, pred |-> AnyPred, rows |-> <<>>, todo |-> <<>>,
     lock |-> FALSE, born |-> 0, names |-> <<>>, count |-> 0, records |-> <<>>]

\* Whether the thread's lock_guard on Database::mutex_ is alive.
HoldsDb(th) == "lock" \in DOMAIN arg[th] /\ arg[th].lock

\* A lock_guard's destructor that leaves Database::mutex_ as it is.
DbStaysLocked(locked) == locked

\* std::lock_guard's destructor: Database::mutex_ is unlocked.
DbUnlock(locked) == FALSE

\* Whether the Table* of a job points to a destroyed object: no table is
\* registered under the name, or another object is.
Dangling(j) == j.table \notin tables_ \/ born[j.table] # j.born

\* A closure as Transaction::insert and Transaction::remove build it: next to
\* its rows, the captured `table`.
Captured(e, g) == [kind |-> e.kind, row |-> e.row, rows |-> e.rows, born |-> g]

\* The file saveToFile leaves: table_count, then a record per serialized table.
Image(j) == [open |-> TRUE, count |-> j.count, records |-> j.records]

\* No file under the name.
NoImage == [open |-> FALSE, count |-> 0, records |-> <<>>]

\* What saveToFile returns (file.good()), with what it wrote.
Saved(j) == [ret |-> TRUE, rows |-> <<>>, count |-> j.count, records |-> j.records]

\* What no step of these threads changes.
SharedFrame ==
    UNCHANGED <<snap, clean, allTrue, shape, writes, initial, acked, seen, schema_, other_,
                held, phase, probe, used, undone>>

\* The variables of the registered tables and of the transactions.
registry == <<tables_, born, rows_, mutex_>>

txs == <<active_, rollback_operations_, life>>

\* The thread moves on inside its call.
Goes(th, j, at) ==
    /\ pc' = [pc EXCEPT ![th] = at]
    /\ arg' = [arg EXCEPT ![th] = j]
    /\ UNCHANGED <<last, started>>

\* Transaction::insert: active_, then in getTable the lock_guard's constructor
\* has returned.
SharedInsertCall(th, t, row) ==
    /\ IF ~active_[th]
       THEN /\ EnterAndLeave(th, Returned(FALSE, <<>>))
            /\ UNCHANGED db_mutex_
       ELSE /\ ~db_mutex_
            /\ db_mutex_' = TRUE
            /\ Enter(th, [Job(t, "insert", row) EXCEPT !.lock = TRUE], "tx_get")
            /\ UNCHANGED last
    /\ UNCHANGED <<registry, txs, file_, wild>>
    /\ SharedFrame

\* Database::getTable: find, return, the lock_guard's destructor; then
\* `if (!table) return false`.
SharedGetTable(th) ==
    /\ pc[th] = "tx_get"
    /\ db_mutex_' = DbUnlock(db_mutex_)
    /\ IF arg[th].table \in tables_
       THEN Goes(th, [arg[th] EXCEPT !.born = born[arg[th].table],
                                     !.lock = DbUnlock(arg[th].lock)], "tx_try")
       ELSE Leave(th, Returned(FALSE, <<>>))
    /\ UNCHANGED <<registry, txs, file_, wild>>
    /\ SharedFrame

\* Transaction::insert: table->getColumns().size() differs from row.size().
SharedInsertWrongSize(th) ==
    /\ pc[th] = "tx_try"
    /\ ~Dangling(arg[th])
    /\ Len(arg[th].row) # Len(columns_(arg[th].table))
    /\ Leave(th, Returned(FALSE, <<>>))
    /\ UNCHANGED <<registry, txs, file_, db_mutex_, wild>>
    /\ SharedFrame

\* Transaction::insert: a try_to_lock owns table->mutex_.
SharedInsertLocked(th) ==
    /\ pc[th] = "tx_try"
    /\ ~Dangling(arg[th])
    /\ Len(arg[th].row) = Len(columns_(arg[th].table))
    /\ CanLockExclusive(mutex_[arg[th].table])
    /\ mutex_' = [mutex_ EXCEPT ![arg[th].table] = AcquireExclusive(@, th)]
    /\ Goes(th, arg[th], "tx_run")
    /\ UNCHANGED <<tables_, born, rows_, txs, file_, db_mutex_, wild>>
    /\ SharedFrame

\* Transaction::insert: every try failed until the 500 ms ran out.
SharedInsertGivesUp(th) ==
    /\ pc[th] = "tx_try"
    /\ ~Dangling(arg[th])
    /\ Len(arg[th].row) = Len(columns_(arg[th].table))
    /\ ~CanLockExclusive(mutex_[arg[th].table])
    /\ Leave(th, GaveUp(FALSE))
    /\ UNCHANGED <<registry, txs, file_, db_mutex_, wild>>
    /\ SharedFrame

\* The closures a call of thread th appends: each captures the call's table.
SharedCaptures(th, undos) == [k \in 1..Len(undos) |-> Captured(undos[k], arg[th].born)]

\* Transaction::insert under the lock: the constraints, push_back, the
\* closure [table, row] appended to rollback_operations_[table_name], the
\* lock's destructor, the return.
SharedInsertRun(th) ==
    /\ pc[th] = "tx_run"
    /\ ~Dangling(arg[th])
    /\ rows_' = [rows_ EXCEPT ![arg[th].table] =
                    TxInsertWrite(columns_(arg[th].table), @, arg[th].row)[2]]
    /\ rollback_operations_' =
          [rollback_operations_ EXCEPT ![th][arg[th].table] =
              @ \o SharedCaptures(th, TxInsertWrite(columns_(arg[th].table),
                                                    rows_[arg[th].table], arg[th].row)[3])]
    /\ mutex_' = [mutex_ EXCEPT ![arg[th].table] = ReleaseExclusive(@, th)]
    /\ Leave(th, Returned(TxInsertWrite(columns_(arg[th].table), rows_[arg[th].table],
                                        arg[th].row)[1], <<>>))
    /\ UNCHANGED <<tables_, born, active_, life, file_, db_mutex_, wild>>
    /\ SharedFrame

\* The job of a rollback whose next compensating action is todo[1]: the
\* closure's captured table.
Aimed(th, todo) ==
    [Job(todo[1][1], "rollback", <<>>) EXCEPT
        !.todo = todo,
        !.born = rollback_operations_[th][todo[1][1]][todo[1][2]].born]

\* Transaction::rollback is entered: active_ = false, then the loops.
SharedRollbackCall(th) ==
    /\ active_[th]
    /\ active_' = [active_ EXCEPT ![th] = FALSE]
    /\ life' = [life EXCEPT ![th] = "rolledback"]
    /\ IF LogSize(rollback_operations_[th]) = 0
       THEN EnterAndLeave(th, Returned(TRUE, <<>>))
       ELSE /\ Enter(th, Aimed(th, OrderFrom(rollback_operations_[th], Len(MapOrder))),
                     "rb_lock")
            /\ UNCHANGED last
    /\ UNCHANGED <<registry, rollback_operations_, file_, db_mutex_, wild>>
    /\ SharedFrame

\* A compensating action: the constructor of its unique_lock on
\* table->mutex_ has returned.
SharedUndoLocked(th) ==
    /\ pc[th] = "rb_lock"
    /\ ~Dangling(arg[th])
    /\ CanLockExclusive(mutex_[arg[th].table])
    /\ mutex_' = [mutex_ EXCEPT ![arg[th].table] = AcquireExclusive(@, th)]
    /\ Goes(th, arg[th], "rb_run")
    /\ UNCHANGED <<tables_, born, rows_, txs, file_, db_mutex_, wild>>
    /\ SharedFrame

\* A compensating action: its work on table->rows_ and its lock's
\* destructor; after the last one rollback_operations_.clear() and the return.
SharedUndoRun(th) ==
    /\ pc[th] = "rb_run"
    /\ ~Dangling(arg[th])
    /\ rows_' = [rows_ EXCEPT ![arg[th].table] =
                    RunUndo(columns_(arg[th].table), @,
                            rollback_operations_[th][arg[th].table][arg[th].todo[1][2]])]
    /\ mutex_' = [mutex_ EXCEPT ![arg[th].table] = ReleaseExclusive(@, th)]
    /\ IF Len(arg[th].todo) = 1
       THEN /\ rollback_operations_' = [rollback_operations_ EXCEPT ![th] = EmptyLog]
            /\ Leave(th, Returned(TRUE, <<>>))
       ELSE /\ Goes(th, Aimed(th, Tail(arg[th].todo)), "rb_lock")
            /\ UNCHANGED rollback_operations_
    /\ UNCHANGED <<tables_, born, active_, life, file_, db_mutex_, wild>>
    /\ SharedFrame

\* Where a thread is when its next step goes through its Table*.
TablePositions == {"tx_try", "tx_run", "rb_lock", "rb_run", "save_lock", "save_copy"}

\* What a build makes of an access to a destroyed Table.
WildOutcomes == {"crash", "unnoticed"}

\* The thread's next step goes through a Table* whose object was destroyed:
\* undefined behaviour. The process ends there ("crash": no thread takes
\* another step), or the access lands in freed memory, the live tables stay
\* as they are and the call returns ("unnoticed").
Wild(th, outcome) ==
    /\ pc[th] \in TablePositions
    /\ Dangling(arg[th])
    /\ wild' = wild \cup {[thread |-> th, kind |-> arg[th].kind, at |-> pc[th]]}
    /\ IF outcome = "crash"
       THEN /\ pc' = [u \in Threads |-> "crashed"]
            /\ UNCHANGED <<arg, last, started, rollback_operations_, file_>>
       ELSE /\ Leave(th, IF arg[th].kind = "save" THEN Saved(arg[th])
                         ELSE Returned(TRUE, <<>>))
            /\ rollback_operations_' =
                  IF arg[th].kind = "rollback"
                  THEN [rollback_operations_ EXCEPT ![th] = EmptyLog]
                  ELSE rollback_operations_
            /\ file_' = IF arg[th].kind = "save" THEN Image(arg[th]) ELSE file_
    /\ UNCHANGED <<registry, active_, life, db_mutex_>>
    /\ SharedFrame

\* Database::createTable: the lock_guard's constructor has returned.
SharedCreateCall(th, t) ==
    /\ ~db_mutex_
    /\ db_mutex_' = TRUE
    /\ Enter(th, [Job(t, "create", <<>>) EXCEPT !.lock = TRUE], "create_body")
    /\ UNCHANGED <<registry, txs, file_, wild, last>>
    /\ SharedFrame

\* Database::createTable: find, make_unique<Table>, the return, the
\* lock_guard's destructor.
SharedCreateBody(th) ==
    /\ pc[th] = "create_body"
    /\ db_mutex_' = DbUnlock(db_mutex_)
    /\ IF arg[th].table \in tables_
       THEN /\ Leave(th, Returned(FALSE, <<>>))
            /\ UNCHANGED registry
       ELSE /\ tables_' = tables_ \cup {arg[th].table}
            /\ born' = [born EXCEPT ![arg[th].table] = @ + 1]
            /\ rows_' = [rows_ EXCEPT ![arg[th].table] = <<>>]
            /\ mutex_' = [mutex_ EXCEPT ![arg[th].table] = Unlocked]
            /\ Leave(th, Returned(TRUE, <<>>))
    /\ UNCHANGED <<txs, file_, wild>>
    /\ SharedFrame

\* Database::dropTable: the lock_guard's constructor has returned.
SharedDropCall(th, t) ==
    /\ ~db_mutex_
    /\ db_mutex_' = TRUE
    /\ Enter(th, [Job(t, "drop", <<>>) EXCEPT !.lock = TRUE], "drop_body")
    /\ UNCHANGED <<registry, txs, file_, wild, last>>
    /\ SharedFrame

\* Database::dropTable: find, tables_.erase(it) (the unique_ptr destroys the
\* Table, its rows and its mutex with it), the return, the lock_guard's
\* destructor.
SharedDropBody(th) ==
    /\ pc[th] = "drop_body"
    /\ db_mutex_' = DbUnlock(db_mutex_)
    /\ IF arg[th].table \notin tables_
       THEN /\ Leave(th, Returned(FALSE, <<>>))
            /\ UNCHANGED registry
       ELSE /\ tables_' = tables_ \ {arg[th].table}
            /\ rows_' = [rows_ EXCEPT ![arg[th].table] = <<>>]
            /\ mutex_' = [mutex_ EXCEPT ![arg[th].table] = Unlocked]
            /\ Leave(th, Returned(TRUE, <<>>))
            /\ UNCHANGED born
    /\ UNCHANGED <<txs, file_, wild>>
    /\ SharedFrame

RECURSIVE NamesFrom(_, _)
\* The registered names in an order the walk of the unordered_map may take.
NamesFrom(names, i) ==
    IF i > Len(MapOrder) THEN <<>>
    ELSE (IF MapOrder[i] \in names THEN <<MapOrder[i]>> ELSE <<>>) \o NamesFrom(names, i + 1)

\* Database::getTableNames: the lock_guard's constructor has returned.
SharedNamesCall(th) ==
    /\ ~db_mutex_
    /\ db_mutex_' = TRUE
    /\ Enter(th, [Job(MissingTable, "names", <<>>) EXCEPT !.lock = TRUE], "names_body")
    /\ UNCHANGED <<registry, txs, file_, wild, last>>
    /\ SharedFrame

\* Database::getTableNames: the walk of tables_, the return, the lock_guard's
\* destructor.
SharedNamesBody(th) ==
    /\ pc[th] = "names_body"
    /\ db_mutex_' = DbUnlock(db_mutex_)
    /\ Leave(th, [ret |-> TRUE, rows |-> <<>>, names |-> NamesFrom(tables_, 1)])
    /\ UNCHANGED <<registry, txs, file_, wild>>
    /\ SharedFrame

\* Database::saveToFile: the file is open and the first lock_guard's
\* constructor has returned.
SharedSaveCall(th) ==
    /\ ~db_mutex_
    /\ db_mutex_' = TRUE
    /\ Enter(th, [Job(MissingTable, "save", <<>>) EXCEPT !.lock = TRUE], "save_names")
    /\ UNCHANGED <<registry, txs, file_, wild, last>>
    /\ SharedFrame

\* Database::saveToFile goes on with job j: the next name of table_names, or
\* after the last one the return of file.good().
SaveGoes(th, j) ==
    IF j.names = <<>>
    THEN /\ file_' = Image(j)
         /\ Leave(th, Saved(j))
    ELSE /\ Goes(th, j, "save_find")
         /\ UNCHANGED file_

\* Database::saveToFile: table_names filled under the lock, the lock_guard's
\* destructor, table_count written.
SharedSaveNames(th) ==
    /\ pc[th] = "save_names"
    /\ db_mutex_' = DbUnlock(db_mutex_)
    /\ SaveGoes(th, [arg[th] EXCEPT !.names = NamesFrom(tables_, 1),
                                    !.count = Len(NamesFrom(tables_, 1)),
                                    !.lock = DbUnlock(arg[th].lock)])
    /\ UNCHANGED <<registry, txs, wild>>
    /\ SharedFrame

\* Database::saveToFile, for one name: the lock_guard's constructor has
\* returned.
SharedSaveFind(th) ==
    /\ pc[th] = "save_find"
    /\ ~db_mutex_
    /\ db_mutex_' = TRUE
    /\ Goes(th, [arg[th] EXCEPT !.lock = TRUE], "save_found")
    /\ UNCHANGED <<registry, txs, file_, wild>>
    /\ SharedFrame

\* Database::saveToFile, for one name: tables_.find(name), the lock_guard's
\* destructor; a name that is found no more is passed over.
SharedSaveFound(th) ==
    /\ pc[th] = "save_found"
    /\ db_mutex_' = DbUnlock(db_mutex_)
    /\ IF arg[th].names[1] \in tables_
       THEN /\ Goes(th, [arg[th] EXCEPT !.table = arg[th].names[1],
                                        !.born = born[arg[th].names[1]],
                                        !.lock = DbUnlock(arg[th].lock)], "save_lock")
            /\ UNCHANGED file_
       ELSE SaveGoes(th, [arg[th] EXCEPT !.names = Tail(@),
                                         !.lock = DbUnlock(arg[th].lock)])
    /\ UNCHANGED <<registry, txs, wild>>
    /\ SharedFrame

\* Table::serialize from saveToFile: the shared_lock's constructor has
\* returned.
SharedSerializeLocked(th) ==
    /\ pc[th] = "save_lock"
    /\ ~Dangling(arg[th])
    /\ CanLockShared(mutex_[arg[th].table])
    /\ mutex_' = [mutex_ EXCEPT ![arg[th].table] = AcquireShared(@, th)]
    /\ Goes(th, arg[th], "save_copy")
    /\ UNCHANGED <<tables_, born, rows_, txs, file_, db_mutex_, wild>>
    /\ SharedFrame

\* Table::serialize from saveToFile: rows_copy = rows_, the lock's
\* destructor, the table's record written.
SharedSerializeCopy(th) ==
    /\ pc[th] = "save_copy"
    /\ ~Dangling(arg[th])
    /\ mutex_' = [mutex_ EXCEPT ![arg[th].table] = ReleaseShared(@, th)]
    /\ SaveGoes(th, [arg[th] EXCEPT
                        !.names = Tail(@),
                        !.records = Append(@, [name |-> arg[th].table,
                                               rows |-> rows_[arg[th].table]])])
    /\ UNCHANGED <<tables_, born, rows_, txs, db_mutex_, wild>>
    /\ SharedFrame

\* Database::loadFromFile: no file opens, or the lock_guard's constructor has
\* returned.
SharedLoadCall(th) ==
    /\ IF ~file_.open
       THEN /\ EnterAndLeave(th, Returned(FALSE, <<>>))
            /\ UNCHANGED db_mutex_
       ELSE /\ ~db_mutex_
            /\ db_mutex_' = TRUE
            /\ Enter(th, [Job(MissingTable, "load", <<>>) EXCEPT !.lock = TRUE], "load_body")
            /\ UNCHANGED last
    /\ UNCHANGED <<registry, txs, file_, wild>>
    /\ SharedFrame

\* The records loadFromFile reads before it returns: table_count of them, or
\* the ones the file holds when it holds fewer.
Readable(f) == IF f.count <= Len(f.records) THEN f.count ELSE Len(f.records)

\* The names of the records loadFromFile reads.
LoadedNames(f) == {f.records[k].name : k \in 1..Readable(f)}

\* The rows loadFromFile gives the table t: those of its last record.
LoadedRows(f, t) ==
    f.records[CHOOSE k \in 1..Readable(f) :
                 /\ f.records[k].name = t
                 /\ \A m \in (k + 1)..Readable(f) : f.records[m].name # t].rows

\* Database::loadFromFile under the lock: tables_.clear() (every Table is
\* destroyed), table_count, Table::deserialize for each record and its
\* registration, false at the first record that is not there, the lock_guard's
\* destructor.
SharedLoadBody(th) ==
    /\ pc[th] = "load_body"
    /\ db_mutex_' = DbUnlock(db_mutex_)
    /\ tables_' = LoadedNames(file_)
    /\ born' = [t \in TableNames |-> IF t \in LoadedNames(file_) THEN born[t] + 1 ELSE born[t]]
    /\ rows_' = [t \in TableNames |->
                    IF t \in LoadedNames(file_) THEN LoadedRows(file_, t) ELSE <<>>]
    /\ mutex_' = [t \in TableNames |-> Unlocked]
    /\ Leave(th, Returned(file_.count <= Len(file_.records), <<>>))
    /\ UNCHANGED <<txs, file_, wild>>
    /\ SharedFrame

\* The state these threads start in: one or two tables; the first holds no
\* row, or one row that the first thread's transaction put there; no file;
\* every thread's transaction is active.
SharedTables == Schemas \cup {{"N", "P"}}

SharedInit ==
    /\ tables_ \in SharedTables
    /\ schema_ = [t \in TableNames |-> FixtureColumns(t)]
    /\ file_ = NoImage
    /\ other_ = NoDatabase
    /\ db_mutex_ = FALSE
    /\ held = NoDatabase
    /\ phase = "build"
    /\ probe = NoProbe
    /\ used = [x \in Txs |-> <<>>]
    /\ undone = <<>>
    /\ born = [t \in TableNames |-> IF t \in tables_ THEN 1 ELSE 0]
    /\ wild = {}
    /\ \E t \in tables_ :
          \E r \in {<<>>} \cup {<<row>> : row \in {w \in LockRows : Len(w) = Len(columns_(t))}} :
             /\ rows_ = [u \in TableNames |-> IF u = t THEN r ELSE <<>>]
             /\ initial = Len(r)
             /\ rollback_operations_ =
                   [x \in Txs |->
                       IF x = 1 /\ r # <<>>
                       THEN [EmptyLog EXCEPT ![t] = <<Captured(InsertUndo(r[1]), 1)>>]
                       ELSE EmptyLog]
    /\ active_ = [x \in Txs |-> TRUE]
    /\ life = [x \in Txs |-> "active"]
    /\ snap = [x \in Txs |-> NoSnap]
    /\ clean = [x \in Txs |-> FALSE]
    /\ allTrue = [x \in Txs |-> FALSE]
    /\ shape = [x \in Txs |-> FALSE]
    /\ writes = [x \in Txs |-> {}]
    /\ last = Returned(TRUE, <<>>)
    /\ mutex_ = [t \in TableNames |-> Unlocked]
    /\ pc = [th \in Threads |-> "idle"]
    /\ arg = [th \in Threads |-> NoArg]
    /\ started = 0
    /\ acked = [row \in RowInputs |-> 0]
    /\ seen = [th \in Threads |-> NotSeen]

\* The names a caller passes: those a table was registered under.
Known == {t \in TableNames : born[t] > 0}

\* The steps of one thread inside a call.
SharedStep(th) ==
    \/ SharedGetTable(th)
    \/ SharedInsertWrongSize(th)
    \/ SharedInsertLocked(th)
    \/ SharedInsertGivesUp(th)
    \/ SharedInsertRun(th)
    \/ SharedUndoLocked(th)
    \/ SharedUndoRun(th)
    \/ \E outcome \in WildOutcomes : Wild(th, outcome)
    \/ SharedCreateBody(th)
    \/ SharedDropBody(th)
    \/ SharedNamesBody(th)
    \/ SharedSaveNames(th)
    \/ SharedSaveFind(th)
    \/ SharedSaveFound(th)
    \/ SharedSerializeLocked(th)
    \/ SharedSerializeCopy(th)
    \/ SharedLoadBody(th)

NextShared ==
    \/ \E th \in Writers, t \in Known, row \in LockRows :
          HasRoom(t) /\ SharedInsertCall(th, t, row)
    \/ \E th \in Writers : SharedRollbackCall(th)
    \/ \E th \in Writers, t \in Known : SharedCreateCall(th, t)
    \/ \E th \in Writers, t \in Known : SharedDropCall(th, t)
    \/ \E th \in Writers : SharedNamesCall(th)
    \/ \E th \in Writers : SharedSaveCall(th)
    \/ \E th \in Writers : SharedLoadCall(th)
    \/ \E th \in Writers : SharedStep(th)

SpecShared == SharedInit /\ [][NextShared]_vars

\* ------------------------------------------------------------------------
\* performTransactionOperation: the retry loop
\* ------------------------------------------------------------------------
\* The largest maxRetries a caller passes (attempt stays below 31, so that
\* 1 << attempt is defined).
MaxRetries == 30

\* The largest int.
IntMax == 2147483647

\* The low 32 bits of 10 * 2^k read as an int, for 16 <= k: what the
\* multiplication leaves where it wraps around.
Wrapped(k) ==
    IF ((10 * 2^(k - 16)) % 65536) >= 32768
    THEN (((10 * 2^(k - 16)) % 65536) - 65536) * 65536
    ELSE ((10 * 2^(k - 16)) % 65536) * 65536

\* 10 * (1 << attempt), computed in int: the product where it fits; where it
\* does not, the signed overflow is undefined, and the build either wraps
\* around or traps.
Backoff(attempt) ==
    IF 2^attempt <= IntMax \div 10
    THEN {[wait |-> 10 * 2^attempt, trap |-> FALSE]}
    ELSE {[wait |-> Wrapped(attempt), trap |-> FALSE], [wait |-> 0, trap |-> TRUE]}

\* What the retry loop leaves the other variables.
RetryFrame ==
    UNCHANGED <<tables_, rows_, active_, rollback_operations_, life, snap, clean, allTrue,
                shape, writes, last, threads, store, used, undone, handles>>

\* The call is entered: attempt = 0.
RetryCall(maxRetries) ==
    /\ probe = NoProbe
    /\ probe' = [done |-> FALSE, at |-> "test", maxRetries |-> maxRetries, attempt |-> 0,
                 invoked |-> 0, failed |-> 0, wait |-> 0, ret |-> FALSE]
    /\ RetryFrame

\* attempt < maxRetries holds and operation() is invoked; it returns what it
\* returns: true ends the call with true.
RetryInvoke(result) ==
    /\ probe # NoProbe /\ ~probe.done
    /\ probe.at = "test"
    /\ probe.attempt < probe.maxRetries
    /\ probe' = [probe EXCEPT !.invoked = @ + 1,
                              !.failed = IF result THEN @ ELSE @ + 1,
                              !.done = result,
                              !.ret = result,
                              !.at = IF result THEN "returned" ELSE "sleep"]
    /\ RetryFrame

\* sleep_for(10 * (1 << attempt)) and attempt++
RetrySleep ==
    /\ probe # NoProbe /\ ~probe.done
    /\ probe.at = "sleep"
    /\ \E b \in Backoff(probe.attempt) :
          probe' = IF b.trap
                   THEN [probe EXCEPT !.at = "trapped", !.done = TRUE]
                   ELSE [probe EXCEPT !.wait = b.wait, !.attempt = @ + 1, !.at = "test"]
    /\ RetryFrame

\* attempt < maxRetries fails: return false.
RetryReturn ==
    /\ probe # NoProbe /\ ~probe.done
    /\ probe.at = "test"
    /\ probe.attempt >= probe.maxRetries
    /\ probe' = [probe EXCEPT !.done = TRUE, !.ret = FALSE, !.at = "returned"]
    /\ RetryFrame

NextRetry ==
    \/ \E maxRetries \in -1..MaxRetries : RetryCall(maxRetries)
    \/ \E result \in BOOLEAN : RetryInvoke(result)
    \/ RetrySleep
    \/ RetryReturn

SpecRetry == DbInit /\ [][NextRetry]_vars

\* ------------------------------------------------------------------------
\* Properties
\* ------------------------------------------------------------------------
\* Number of rows of a sequence equal to r.
Count(seq, r) == Cardinality({k \in 1..Len(seq) : seq[k] = r})

\* Two row sequences hold the same multiset of rows.
SameBag(s1, s2) ==
    /\ Len(s1) = Len(s2)
    /\ \A k \in 1..Len(s1) : Count(s1, s1[k]) = Count(s2, s1[k])

\* The transaction finished, by commit or by rollback.
Finished(x) == life[x] \in {"committed", "rolledback"}

\* C1: starting from table state S, after mutating calls of one transaction
\* that each returned true and with no other caller in between, rollback()
\* leaves every table with the same multiset of rows as S.
C1_RollbackRestoresBag ==
    [][\A x \in Txs :
          (Rollback(x) /\ life[x] = "active" /\ clean[x] /\ allTrue[x])
             => \A t \in TableNames : SameBag(rows_'[t], snap[x][t])]_vars

\* C2: in every table with a primary-key column no two rows hold equal
\* values in that column.
C2_PrimaryKeyUnique ==
    \A t \in tables_ :
        LET pk == findPrimaryKeyIndex(columns_(t)) IN
        pk > 0 =>
            \A i, j \in 1..Len(rows_[t]) :
                i # j => rows_[t][i][pk] # rows_[t][j][pk]

\* C3: in a table with a primary key, a transaction that only inserts rows
\* with fresh key values and updates single existing rows without changing
\* their key, and then rolls back, leaves exactly the pre-transaction rows.
C3_ScenarioRestores ==
    [][\A x \in Txs :
          (Rollback(x) /\ life[x] = "active" /\ clean[x] /\ shape[x])
             => \A t \in TableNames : SameBag(rows_'[t], snap[x][t])]_vars

\* C4: destroying an active transaction runs its compensating actions as
\* rollback() does, so that no table holds a row the transaction wrote (beyond
\* the copies it held before the transaction); destroying a finished
\* transaction changes no table.
C4_DestroyUndoesWrites ==
    [][\A x \in Txs :
          /\ (Destroy(x) /\ life[x] = "active")
                => rows_' = RollbackRows(rows_, rollback_operations_[x])
          /\ (Destroy(x) /\ life[x] = "active" /\ clean[x])
                => \A w \in writes[x] :
                      Count(rows_'[w[1]], w[2]) <= Count(snap[x][w[1]], w[2])
          /\ (Destroy(x) /\ Finished(x)) => rows_' = rows_]_vars

\* C5: commit() on an active transaction returns true and runs no
\* compensating action, so the tables keep what the transaction wrote; a later
\* commit(), rollback() or destruction leaves every table unchanged, and the
\* later commit() returns false.
C5_CommitFinal ==
    [][\A x \in Txs :
          /\ (life[x] = "active" /\ Commit(x))
                => (last'.ret = TRUE /\ rows_' = rows_)
          /\ (life[x] = "committed" /\ (Commit(x) \/ Rollback(x) \/ Destroy(x)))
                => rows_' = rows_
          /\ (life[x] = "committed" /\ Commit(x)) => last'.ret = FALSE]_vars

\* C5's case: a committed transaction was committed again (the call returned
\* false) and the table still holds rows.
C5_Witness ==
    /\ life[1] = "committed"
    /\ last.ret = FALSE
    /\ \E t \in tables_ : Len(rows_[t]) = MaxRows

\* A step that returns false and changes neither a table nor the transaction.
RejectedStep ==
    /\ last'.ret = FALSE
    /\ rows_' = rows_
    /\ active_' = active_
    /\ rollback_operations_' = rollback_operations_
    /\ life' = life

\* C6: on a transaction that committed or rolled back, insert, update and
\* remove return false and select returns no row; the calls change no table
\* and leave the transaction finished.
C6_FinishedCallsFail ==
    [][\A x \in Txs :
          Finished(x) =>
            \A t \in tables_ \cup {MissingTable} :
              /\ \A row \in RowInputs :
                    /\ TxInsert(x, t, row) => RejectedStep
                    /\ \A p \in Predicates : TxUpdate(x, t, row, p) => RejectedStep
              /\ \A p \in Predicates :
                    /\ TxRemove(x, t, p) => RejectedStep
                    /\ TxSelect(x, t, p) =>
                          /\ last'.rows = <<>>
                          /\ rows_' = rows_
                          /\ active_' = active_
                          /\ life' = life]_vars

\* C6's case: a call on a finished transaction returned false while the table
\* held rows the call could have touched.
C6_Witness ==
    /\ Finished(1)
    /\ ~active_[1]
    /\ last.ret = FALSE
    /\ \E t \in tables_ : Len(rows_[t]) = MaxRows

\* Whether Table.insert(row) must be refused, stated on the columns' flags.
MustRefuse(t, row) ==
    IF Len(row) # Len(columns_(t)) THEN TRUE
    ELSE \E i \in 1..Len(row) :
            /\ columns_(t)[i].primary_key \/ columns_(t)[i].unique
            /\ \E k \in 1..Len(rows_[t]) : rows_[t][k][i] = row[i]

\* C7: Table.insert(row) returns false and leaves the rows unchanged when the
\* row's length differs from the column count or an existing row has an equal
\* value in the primary-key column or in a unique column; otherwise it appends
\* the row at the end and returns true.
C7_TableInsert ==
    [][\A t \in tables_, row \in RowInputs :
          TableInsert(t, row) =>
             IF MustRefuse(t, row)
             THEN last'.ret = FALSE /\ rows_' = rows_
             ELSE last'.ret = TRUE /\ rows_' = [rows_ EXCEPT ![t] = Append(@, row)]]_vars

\* C7's case: the table with a unique column holds a row and the last call was
\* refused.
C7_Witness ==
    /\ tables_ = {"U"}
    /\ rows_["U"] # <<>>
    /\ last.ret = FALSE

\* Every stored row has as many values as its table has columns.
ArityOK(all) ==
    \A t \in tables_ : \A k \in 1..Len(all[t]) : Len(all[t][k]) = Len(columns_(t))

\* C8: every stored row has exactly as many values as the table has columns,
\* whatever Table and Transaction calls, commits and rollbacks ran before; and
\* in every such state an insert or update given a row of another length,
\* through the Table or through a Transaction, returns false and leaves the
\* rows as they are.
C8_ArityKept ==
    /\ ArityOK(rows_)
    /\ \A t \in tables_, row \in RowInputs :
          Len(row) # Len(columns_(t)) =>
             /\ TableInsertResult(columns_(t), rows_[t], row) = <<FALSE, rows_[t]>>
             /\ \A x \in Txs :
                   LET w == TxInsertResult(x, t, row) IN ~w[1] /\ w[2] = rows_
             /\ \A p \in Predicates :
                   /\ TableUpdateResult(columns_(t), rows_[t], row, p) = <<FALSE, rows_[t]>>
                   /\ \A x \in Txs :
                         LET w == TxUpdateResult(x, t, row, p) IN ~w[1] /\ w[2] = rows_

\* C8's case: an active transaction had a call refused while the table was
\* full of rows of the right length.
C8_Witness ==
    /\ life[1] = "active"
    /\ clean[1] /\ ~allTrue[1]
    /\ last.ret = FALSE
    /\ \E t \in tables_ : Len(rows_[t]) = MaxRows

\* The rows of table t that carry value v in column i.
RowsWith(t, i, v) == {k \in 1..Len(rows_[t]) : rows_[t][k][i] = v}

\* How many inserts of rows carrying value v in column i of table t returned true.
RECURSIVE SumAcked(_)
SumAcked(S) ==
    IF S = {} THEN 0
    ELSE LET row == CHOOSE r \in S : TRUE IN acked[row] + SumAcked(S \ {row})

AckedWith(t, i, v) ==
    SumAcked({row \in RowInputs : Len(row) = Len(columns_(t)) /\ row[i] = v})

\* C9: when threads insert rows carrying the same primary-key value into one
\* table at the same time, through Table.insert or Transaction.insert, at most
\* one of the calls returns true and the table holds at most one row carrying
\* that value.
C9_OneInsertPerKey ==
    \A t \in tables_ :
       LET pk == findPrimaryKeyIndex(columns_(t)) IN
       pk > 0 =>
          \A v \in Values :
             /\ Cardinality(RowsWith(t, pk, v)) <= 1
             /\ AckedWith(t, pk, v) <= 1
             /\ AckedWith(t, pk, v) <= Cardinality(RowsWith(t, pk, v))

\* C9's case: one thread holds the lock inside Table.insert with its row
\* checked, the other thread is inside Transaction.insert with a row of the
\* same primary-key value and finds the lock taken.
C9_Witness ==
    /\ tables_ = {"P"}
    /\ pc[1] = "insert_append"
    /\ pc[2] = "tx_insert_try"
    /\ arg[1].row[1] = arg[2].row[1]
    /\ rows_["P"] = <<>>

\* C10: with threads calling select while other threads call insert on one
\* table, every row count a select returned is at least the row count the
\* table started with and at most that count plus the number of inserts
\* entered by then; and once every call has returned, each row whose insert
\* returned true is in the table.
C10_ReadersConsistent ==
    /\ \A th \in Threads :
          seen[th].valid =>
             /\ seen[th].count >= initial
             /\ seen[th].count <= initial + seen[th].started
    /\ (\A th \in Threads : pc[th] = "idle") =>
          \A t \in tables_, row \in RowInputs :
             acked[row] > 0 => \E k \in 1..Len(rows_[t]) : rows_[t][k] = row

\* C19: Table.update(row, predicate) with a row of the right length puts a
\* copy of row in the place of every row the predicate holds for, leaves every
\* other row and the order unchanged, and returns true exactly when some row
\* matched; with a row of another length it returns false and changes nothing.
C19_TableUpdate ==
    [][\A t \in tables_, row \in RowInputs, p \in Predicates :
          TableUpdate(t, row, p) =>
             IF Len(row) # Len(columns_(t))
             THEN last'.ret = FALSE /\ rows_' = rows_
             ELSE /\ Len(rows_'[t]) = Len(rows_[t])
                  /\ \A k \in 1..Len(rows_[t]) :
                        rows_'[t][k] = IF PredHolds(p, rows_[t][k]) THEN row ELSE rows_[t][k]
                  /\ last'.ret = (\E k \in 1..Len(rows_[t]) : PredHolds(p, rows_[t][k]))
                  /\ \A u \in TableNames \ {t} : rows_'[u] = rows_[u]]_vars

\* C19's case: an update has just overwritten both rows of the two-column
\* table with one row.
C19_Witness ==
    /\ tables_ = {"P"}
    /\ Len(rows_["P"]) = 2
    /\ rows_["P"][1] = rows_["P"][2]
    /\ last.ret = TRUE

\* The k-th smallest member of a set of indices.
Nth(S, k) == CHOOSE i \in S : Cardinality({j \in S : j < i}) = k - 1

\* C20: Table.remove(predicate) deletes exactly the rows the predicate holds
\* for, keeps the other rows in their previous relative order, and returns
\* true exactly when some row was deleted.
C20_TableRemove ==
    [][\A t \in tables_, p \in Predicates :
          TableRemove(t, p) =>
             LET keep == {k \in 1..Len(rows_[t]) : ~PredHolds(p, rows_[t][k])}
             IN /\ Len(rows_'[t]) = Cardinality(keep)
                /\ \A j \in 1..Cardinality(keep) : rows_'[t][j] = rows_[t][Nth(keep, j)]
                /\ last'.ret = (Cardinality(keep) < Len(rows_[t]))
                /\ \A u \in TableNames \ {t} : rows_'[u] = rows_[u]]_vars

\* C20's case: a call returned true and left two different rows, fewer than
\* the table can hold, in the table without a key.
C20_Witness ==
    /\ tables_ = {"N"}
    /\ Len(rows_["N"]) = MaxTableRows - 1
    /\ rows_["N"][1] # rows_["N"][2]
    /\ last.ret = TRUE


C18_TwoKeysRefused ==
    [][\A name \in CallNames : \A columns \in ColumnLists(name) :
          (CreateTable(name, columns)
             /\ Cardinality({k \in 1..Len(columns) : columns[k].primary_key}) >= 2) =>
                /\ last'.ret # TRUE
                /\ name \notin tables_ => (Threw(last') /\ name \notin tables_')
                /\ tables_' = tables_
                /\ db_mutex_' = FALSE]_vars

\* The constructor threw out of createTable.
C18_Witness == Threw(last) /\ last.threw = "runtime_error" /\ tables_ = {"N"}

\* The files saveToFile can write for what the Database holds.
Images == {FileImage(order, schema_, rows_) : order \in Orders(tables_)}

\* C11: saveToFile followed by loadFromFile into a fresh Database returns true
\* both times and yields the same table names, the same column lists and the
\* same rows in the same order; an empty Database comes back empty.
C11_RoundTrip ==
    /\ phase = "saved" => (last = Returned(TRUE, <<>>) /\ file_ \in Images)
    /\ phase = "fresh" =>
          /\ last = Returned(TRUE, <<>>)
          /\ other_.ret = TRUE
          /\ other_.tables.tables = tables_
          /\ \A t \in tables_ :
                /\ other_.tables.schema[t] = schema_[t]
                /\ other_.tables.rows[t] = rows_[t]

\* Two tables came back, one of them with two different rows.
C11_Witness ==
    /\ phase = "fresh"
    /\ other_.tables.tables = {"N", "P"}
    /\ Len(other_.tables.rows["N"]) = 2
    /\ other_.tables.rows["N"][1] # other_.tables.rows["N"][2]

\* C12: after loadFromFile returns true on a Database that already held
\* tables, the tables are exactly the file's: the tables registered before
\* and not in the file are gone, the others hold the file's rows only.
C12_LoadReplaces ==
    (phase = "file" /\ last.ret = TRUE) =>
        /\ file_ \in Images
        /\ \A t \in DbNames \ tables_ : rows_[t] = <<>> /\ schema_[t] = <<>>

\* The Database held a table the file does not have, and another with other
\* rows than the file's.
C12_Witness ==
    /\ phase = "file"
    /\ last.ret = TRUE
    /\ held.tables \ tables_ # {}
    /\ \E t \in tables_ \cap held.tables : held.rows[t] # rows_[t]

\* C13: loadFromFile on a path that cannot be opened returns false and leaves
\* the tables and their rows as they were.
C13_MissingFile ==
    phase = "missing" => (last = Returned(FALSE, <<>>) /\ Holds = held)

\* The Database held a row when the file could not be opened.
C13_Witness == phase = "missing" /\ "N" \in tables_ /\ rows_["N"] # <<>>

\* C14: loadFromFile on a saved file cut short before its end returns, and
\* returns false.
C14_CutFile == phase = "cut" => last = Returned(FALSE, <<>>)

\* The cut fell inside the second table's name.
C14_Witness == phase = "cut" /\ tables_ = {"N", NulName} /\ rows_["N"] # <<>>

\* C15: loadFromFile on bytes that saveToFile did not write returns false: it
\* neither returns true nor leaves by an exception.
C15_Garbage == phase = "garbage" => last = Returned(FALSE, <<>>)

\* C16: when loadFromFile returns false because a read failed part-way, the
\* table set is the one the Database held before the call.
C16_FailedLoadKeepsTables ==
    (phase \in {"cut", "garbage"} /\ last = Returned(FALSE, <<>>)) => tables_ = held.tables

\* Why a mutating Transaction call on table t must be refused.
NotRegistered(t) == t \notin tables_
WrongLength(t, row) == t \in tables_ /\ Len(row) # Len(columns_(t))
KeyTaken(t, row) ==
    /\ t \in tables_
    /\ Len(row) = Len(columns_(t))
    /\ \E i \in 1..Len(row) :
          /\ columns_(t)[i].primary_key \/ columns_(t)[i].unique
          /\ \E k \in 1..Len(rows_[t]) : rows_[t][k][i] = row[i]
NoMatch(t, p) == t \in tables_ /\ \A k \in 1..Len(rows_[t]) : ~PredHolds(p, rows_[t][k])

\* A step that returned false on a transaction that is and stays active, and
\* changed neither a table nor the undo log.
RefusedStep(x) ==
    /\ RejectedStep
    /\ active_[x] /\ active_'[x]

\* C22: on an active transaction, an insert, update or remove naming a table
\* that is not registered, giving a row of the wrong length, colliding with a
\* primary-key or unique value, or matching no row returns false; and every
\* such call that returns false changes no table, appends nothing to the undo
\* log and leaves the transaction active.  (No step that returns true is one
\* of the calls that must be refused, and no step that returns false and
\* changes something is one of these calls.)
C22_RefusedCallChangesNothing ==
    [][\A x \in Txs :
          life[x] = "active" =>
            \A t \in tables_ \cup {MissingTable} :
              /\ \A row \in RowInputs :
                    /\ (/\ last'.ret = TRUE
                        /\ NotRegistered(t) \/ WrongLength(t, row) \/ KeyTaken(t, row))
                          => ~TxInsert(x, t, row)
                    /\ (last'.ret = FALSE /\ ~RefusedStep(x)) => ~TxInsert(x, t, row)
                    /\ \A p \in Predicates :
                          /\ (/\ last'.ret = TRUE
                              /\ NotRegistered(t) \/ WrongLength(t, row) \/ NoMatch(t, p))
                                => ~TxUpdate(x, t, row, p)
                          /\ (last'.ret = FALSE /\ ~RefusedStep(x)) => ~TxUpdate(x, t, row, p)
              /\ \A p \in Predicates :
                    /\ (last'.ret = TRUE /\ (NotRegistered(t) \/ NoMatch(t, p)))
                          => ~TxRemove(x, t, p)
                    /\ (last'.ret = FALSE /\ ~RefusedStep(x)) => ~TxRemove(x, t, p)]_vars

\* C22's case: the transaction holds a compensating action for the row it put
\* into the table with the unique column, and its last call was refused.
C22_Witness ==
    /\ tables_ = {"U"}
    /\ life[1] = "active"
    /\ clean[1] /\ ~allTrue[1]
    /\ Len(rollback_operations_[1]["U"]) = 1
    /\ rollback_operations_[1]["U"][1].kind = "insert"
    /\ last.ret = FALSE

\* The undo log of transaction x holds compensating actions of updates only,
\* and at least one for table t.
OnlyUpdates(x, t) ==
    /\ rollback_operations_[x][t] # <<>>
    /\ \A u \in TableNames :
          \A k \in 1..Len(rollback_operations_[x][u]) :
             rollback_operations_[x][u][k].kind = "update"

\* C28: in a table with a primary key, rollback gives every row that the
\* transaction's updates overwrote its value from before the update, also
\* when an update changed the row's primary-key value.
C28_KeyedUpdateRestored ==
    [][\A x \in Txs : \A t \in tables_ :
          (/\ life[x] = "active" /\ clean[x]
           /\ findPrimaryKeyIndex(columns_(t)) > 0
           /\ OnlyUpdates(x, t)
           /\ Rollback(x))
             => rows_'[t] = snap[x][t]]_vars

\* C29: in a table without a primary-key column, rollback gives every row
\* that the transaction's updates overwrote its value from before the update.
C29_KeylessUpdateRestored ==
    [][\A x \in Txs : \A t \in tables_ :
          (/\ life[x] = "active" /\ clean[x]
           /\ findPrimaryKeyIndex(columns_(t)) = 0
           /\ OnlyUpdates(x, t)
           /\ Rollback(x))
             => rows_'[t] = snap[x][t]]_vars

\* C26: over null, integer, text and blob Values, equality is false when the
\* type tags differ, and operator< is a strict total order that agrees with
\* equality: of a<b, a==b, b<a exactly one holds, and a<b, b<c give a<c.
C26_ValueOrder ==
    probe.done =>
        /\ \A i, j \in 1..3 :
              /\ probe.v[i].type # probe.v[j].type => ~probe.eq[i][j]
              /\ Cardinality({k \in 1..3 :
                     \/ k = 1 /\ probe.lt[i][j]
                     \/ k = 2 /\ probe.eq[i][j]
                     \/ k = 3 /\ probe.lt[j][i]}) = 1
        /\ \A i, j, k \in 1..3 :
              (probe.lt[i][j] /\ probe.lt[j][k]) => probe.lt[i][k]

\* C26's case: "a" < "ab" < "\xC8" were compared, and a text with a blob.
C26_Witness ==
    /\ probe.done
    /\ probe.v = <<TextValue(<<97>>), TextValue(<<97, 98>>), TextValue(<<200>>)>>
    /\ probe.lt[1][2] /\ probe.lt[2][3] /\ probe.lt[1][3]
    /\ ~probe.lt[3][1]

\* A row that holds a null in a column of table t marked not_null.
NullInNotNull(t, row) ==
    \E i \in 1..Len(row) : columns_(t)[i].not_null /\ row[i].type = "NULL_TYPE"

\* No stored row holds a null in a column marked not_null.
NoNullStored ==
    \A t \in tables_ : \A k \in 1..Len(rows_[t]) : ~NullInNotNull(t, rows_[t][k])

\* A step of insert or update, through the Table or a Transaction, given row.
WritesRow(t, row) ==
    \/ TableInsert(t, row)
    \/ \E p \in Predicates : TableUpdate(t, row, p)
    \/ \E x \in CallerTxs : TxInsert(x, t, row)
    \/ \E x \in CallerTxs, p \in Predicates : TxUpdate(x, t, row, p)

\* C24: an insert or update, through the Table or a Transaction, of a row
\* with a null in a not_null column returns false and leaves the table as it
\* was, so that no stored row ever holds a null in a not_null column.
C24_NotNullEnforced ==
    [][/\ \A t \in tables_ : \A row \in TypedRows(t) :
             (NullInNotNull(t, row) /\ WritesRow(t, row))
                => (last'.ret = FALSE /\ rows_' = rows_)
       /\ NoNullStored']_vars

\* A row with a value (not a null) of another type than its column's type.
TypeMismatch(t, row) ==
    \E i \in 1..Len(row) : row[i].type \notin {columns_(t)[i].type, "NULL_TYPE"}

\* C25: an insert or update, through the Table or a Transaction, of a row
\* with a value whose type differs from its column's type returns false and
\* leaves the table as it was.
C25_TypesChecked ==
    [][\A t \in tables_ : \A row \in TypedRows(t) :
          (TypeMismatch(t, row) /\ WritesRow(t, row))
             => (last'.ret = FALSE /\ rows_' = rows_)]_vars

\* The position of table t in a list of tables, or 0.
PlaceOf(list, t) ==
    IF \E i \in 1..Len(list) : list[i] = t
    THEN CHOOSE i \in 1..Len(list) : list[i] = t
    ELSE 0

\* C27: rollback() runs every compensating action once; those of one table
\* in the reverse of the order they were recorded in, and the tables in the
\* reverse of the order in which the transaction first used them.
C27_RollbackOrder ==
    [][\A x \in CallerTxs :
          RollbackObserved(x) =>
             /\ Len(undone') = LogSize(rollback_operations_[x])
             /\ \A i, j \in 1..Len(undone') :
                   (i < j /\ undone'[i][1] = undone'[j][1]) => undone'[i][2] > undone'[j][2]
             /\ \A i, j \in 1..Len(undone') :
                   (i < j /\ undone'[i][1] # undone'[j][1])
                      => PlaceOf(used[x], undone'[i][1]) > PlaceOf(used[x], undone'[j][1])]_vars
\* A thread is inside the part of a call that modifies rows_ of table t.
Writing(th, t) ==
    /\ pc[th] \in {"table_write", "tx_write", "undo_run"}
    /\ arg[th].table = t

\* A thread is inside the part of a call that reads rows_ of table t.
Reading(th, t) ==
    /\ pc[th] \in {"select_scan", "tx_select_scan", "tx_snapshot", "serialize_copy"}
    /\ arg[th].table = t

\* C30: while one thread is modifying the rows of a table (in Table::insert,
\* update or remove, in the write phase of a Transaction call, or in a
\* compensating action that rollback runs), no other thread is reading them
\* (Table::select, Transaction::select, a read phase, Table::serialize) or
\* modifying them.
C30_WritersExclude ==
    \A t \in TableNames : \A a \in Writers : \A b \in Writers \ {a} :
        Writing(a, t) => ~Writing(b, t) /\ ~Reading(b, t)

\* A rollback is running a compensating action on a table while the other
\* thread's transaction is trying to write to the same table.
C30_Witness ==
    /\ pc[1] = "undo_run"
    /\ pc[2] = "tx_write_try"
    /\ arg[2].table = arg[1].table

\* A thread's call gives up waiting for a table's lock.
GivesUp(th) ==
    \/ TxReadGivesUp(th)
    \/ TxWriteGivesUp(th)
    \/ \E t \in tables_ : BeginReadGivesUp(th, t) \/ BeginWriteGivesUp(th, t)

\* A thread's Transaction::select gives up waiting for a table's lock.
SelectGivesUp(th) == \E t \in tables_ : \E p \in LockPredicates : TxSelectGivesUp(th, t, p)

\* The thread owns no table's lock.
HoldsNoLock(th) ==
    \A t \in TableNames : mutex_[t].writer # th /\ th \notin mutex_[t].readers

\* C23: beginRead, beginWrite and the Transaction calls do not wait for ever
\* for a lock another thread holds: a thread in a try-lock loop leaves it,
\* beginRead / beginWrite / Transaction::select always either get the lock or
\* give up, and a call that gives up returns false (select: no rows), its
\* thread owns no lock, and the rows and the compensating actions are as they
\* were.
C23_TimedLocks ==
    /\ \A th \in Writers : (pc[th] = "tx_read_try") ~> (pc[th] # "tx_read_try")
    /\ \A th \in Writers : (pc[th] = "tx_write_try") ~> (pc[th] # "tx_write_try")
    /\ [](\A th \in Writers : \A t \in tables_ :
             (pc[th] = "idle" /\ started < MaxStarted) =>
                 /\ ENABLED (BeginRead(th, t) \/ BeginReadGivesUp(th, t))
                 /\ ENABLED (BeginWrite(th, t) \/ BeginWriteGivesUp(th, t))
                 /\ active_[th] =>
                       ENABLED (TxSelectLocked(th, t, AnyPred) \/ TxSelectGivesUp(th, t, AnyPred)))
    /\ [][\A th \in Writers :
             (GivesUp(th) \/ SelectGivesUp(th)) =>
                 /\ pc'[th] = "idle"
                 /\ last'.rows = <<>>
                 /\ GivesUp(th) => last'.ret = FALSE
                 /\ HoldsNoLock(th)'
                 /\ rows_' = rows_
                 /\ rollback_operations_' = rollback_operations_]_vars

\* A call of the second thread gave up and returned false while the first
\* thread holds, through beginWrite, the lock of a table with a row that its
\* transaction inserted.
C23_Witness ==
    /\ "gave_up" \in DOMAIN last
    /\ last.ret = FALSE
    /\ pc[2] = "idle"
    /\ pc[1] = "holds_exclusive"
    /\ rows_[arg[1].table] # <<>>
    /\ rollback_operations_[1][arg[1].table] # <<>>

\* C21: every select that returns, Table::select or Transaction::select on
\* an active transaction and a registered table, returns the rows of the
\* table the predicate holds for, in their order, other transactions'
\* unfinished writes included, and leaves the rows as they are.
C21_SelectReturnsMatches ==
    [][\A th \in Writers : \A t \in tables_ : \A p \in LockPredicates :
          (\/ TxSelectGivesUp(th, t, p)
           \/ (SelectScan(th) \/ TxSelectScan(th)) /\ arg[th].table = t /\ arg[th].pred = p)
          => /\ last'.rows = SelectRows(rows_[t], p)
             /\ rows_' = rows_]_vars


\* C34: on every table state and for every argument, Transaction::insert,
\* update and remove on an active transaction (each lock obtained at once)
\* return what Table::insert, update and remove return and leave the table
\* with the rows they leave.
C34_SameAsTable ==
    \A x \in Txs : \A t \in tables_ :
        active_[x] =>
           /\ \A row \in RowInputs :
                 /\ TxInsertResult(x, t, row)[1] = TableInsertResult(columns_(t), rows_[t], row)[1]
                 /\ TxInsertResult(x, t, row)[2][t] = TableInsertResult(columns_(t), rows_[t], row)[2]
                 /\ \A p \in Predicates :
                       /\ TxUpdateResult(x, t, row, p)[1]
                             = TableUpdateResult(columns_(t), rows_[t], row, p)[1]
                       /\ TxUpdateResult(x, t, row, p)[2][t]
                             = TableUpdateResult(columns_(t), rows_[t], row, p)[2]
           /\ \A p \in Predicates :
                 /\ TxRemoveResult(x, t, p)[1] = TableRemoveResult(rows_[t], p)[1]
                 /\ TxRemoveResult(x, t, p)[2][t] = TableRemoveResult(rows_[t], p)[2]

\* An active transaction that has written to a table with a primary key, and
\* the table holds two rows.
C34_Witness ==
    /\ tables_ = {"P"}
    /\ active_[1]
    /\ rollback_operations_[1]["P"] # <<>>
    /\ Len(rows_["P"]) = 2
    /\ rows_["P"][1][1] # rows_["P"][2][1]

\* The undo log of transaction x holds compensating actions of inserts only,
\* and at least one for table t.
OnlyInserts(x, t) ==
    /\ rollback_operations_[x][t] # <<>>
    /\ \A u \in TableNames :
          \A k \in 1..Len(rollback_operations_[x][u]) :
             rollback_operations_[x][u][k].kind = "insert"

\* C37: the rollback of a transaction that only inserted removes only the
\* rows the transaction inserted: every row the table held before, a row
\* equal to an inserted one included, is in the table as often as before.
C37_RollbackKeepsOlderRows ==
    [][\A x \in Txs : \A t \in tables_ :
          (/\ life[x] = "active" /\ clean[x]
           /\ OnlyInserts(x, t)
           /\ Rollback(x))
             => \A k \in 1..Len(snap[x][t]) :
                   Count(rows_'[t], snap[x][t][k]) >= Count(snap[x][t], snap[x][t][k])]_vars


\* C36: while two transactions insert into and remove from a table with a
\* primary key, commit and roll back, in any order, no two rows of the table
\* hold the same primary-key value.
C36_PairKeepsKeys ==
    \A t \in tables_ :
        findPrimaryKeyIndex(columns_(t)) > 0 =>
           \A i \in 1..Len(rows_[t]) : \A j \in 1..Len(rows_[t]) :
              i # j => ~ValueEq(rows_[t][i][findPrimaryKeyIndex(columns_(t))],
                                rows_[t][j][findPrimaryKeyIndex(columns_(t))])


\* C40: performTransactionOperation invokes operation at most maxRetries
\* times (never, with maxRetries <= 0); it returns true on the first
\* invocation that returns true, and false exactly when maxRetries
\* invocations returned false; and the wait after failed attempt k is
\* 10 * 2^k milliseconds.
C40_RetryLoop ==
    probe # NoProbe =>
        /\ probe.invoked <= (IF probe.maxRetries > 0 THEN probe.maxRetries ELSE 0)
        /\ probe.at # "trapped"
        /\ probe.done =>
              /\ probe.ret => probe.invoked = probe.failed + 1
              /\ ~probe.ret <=>
                    /\ probe.invoked = probe.failed
                    /\ probe.failed = (IF probe.maxRetries > 0 THEN probe.maxRetries ELSE 0)
        /\ ~probe.done => probe.invoked = probe.failed
        /\ (probe.at = "test" /\ probe.attempt > 0) =>
              /\ probe.wait % 10 = 0
              /\ probe.wait \div 10 = 2^(probe.attempt - 1)


\* The rows a sequence of compensating actions of one update or one remove
\* holds.
Recorded(undos) ==
    IF undos = <<>> THEN <<>>
    ELSE IF undos[1].kind = "remove" THEN undos[1].rows
    ELSE [k \in 1..Len(undos) |-> undos[k].row]

\* C35: the rows Transaction::update or remove records in the undo log are
\* the rows its write phase overwrote or deleted, whatever other threads did
\* to the table between its read phase and its write phase.
C35_UndoHoldsWrittenRows ==
    [][\A th \in Writers :
          (TxWriteRun(th) /\ arg[th].kind \in {"update", "remove"})
             => Recorded(SubSeq(rollback_operations_'[th][arg[th].table],
                                Len(rollback_operations_[th][arg[th].table]) + 1,
                                Len(rollback_operations_'[th][arg[th].table])))
                   = SelectRows(rows_[arg[th].table], arg[th].pred)]_vars


\* C39: rollback (also the one the destructor of an active transaction
\* calls) returns, even if another thread keeps a table's lock for ever.
C39_RollbackReturns ==
    \A th \in Writers : (pc[th] \in {"undo_lock", "undo_run"}) ~> (pc[th] = "idle")


\* C33: a thread that owns a table's exclusive lock through beginWrite and
\* calls Table::insert on the table gets the result of the insert, the row
\* being appended if it is accepted, still owns the lock, and is not held up
\* for ever.
C33_InsertUnderBeginWrite ==
    /\ [][\A th \in Writers :
             (pc[th] = "held_insert_lock" /\ pc'[th] # "held_insert_lock")
                => /\ pc'[th] = "holds_exclusive"
                   /\ last' = Returned(TableInsertResult(columns_(arg[th].table),
                                                         rows_[arg[th].table], arg[th].row)[1], <<>>)
                   /\ rows_'[arg[th].table]
                         = TableInsertResult(columns_(arg[th].table),
                                             rows_[arg[th].table], arg[th].row)[2]]_vars
    /\ \A th \in Writers : (pc[th] = "held_insert_lock") ~> (pc[th] = "holds_exclusive")

\* C31: a thread whose lock_guard on Database::mutex_ is alive is at no step
\* that tries, waits for or holds a table's lock, and holds no table's lock;
\* and whenever a thread is inside a call, some thread inside a call can take
\* its next step (no cycle of waits between the two levels).
C31_NoTableLockUnderDbLock ==
    /\ \A th \in Threads :
          HoldsDb(th) =>
             /\ pc[th] \notin TablePositions
             /\ \A t \in TableNames : mutex_[t].writer # th /\ th \notin mutex_[t].readers
    /\ (\E th \in Threads : pc[th] \notin {"idle", "crashed"}) =>
          \E u \in Writers : ENABLED SharedStep(u)

\* One thread is inside a Database call under the Database's lock while the
\* other holds a table's lock.
C31_Witness ==
    \E a \in Writers, b \in Writers :
       /\ a # b
       /\ HoldsDb(a)
       /\ db_mutex_
       /\ pc[b] \in {"tx_run", "rb_run", "save_copy"}
       /\ ~Dangling(arg[b])

\* C32: no compensating action that rollback runs goes through a pointer to
\* a destroyed Table.
C32_RollbackResolvesByName == \A w \in wild : w.kind # "rollback"

\* C38: the table_count of the file saveToFile wrote is the number of table
\* records that follow it (as long as no call went through a pointer to a
\* destroyed Table).
C38_CountMatchesRecords ==
    (file_.open /\ wild = {}) => file_.count = Len(file_.records)

====
